---- MODULE Spec2Model ----
(***************************************************************************)
(* A model of the scenario simulation and caching engine of pci-bci:       *)
(* the mass edit engine (src/src/scenarios/apply_mass_edits.py), the       *)
(* network edit engine (src/src/scenarios/apply_network_edits.py), the     *)
(* artifact store (src/src/scenarios/artifacts.py) and the scenario runner *)
(* (src/src/scenarios/runner.py) with the stages it calls.                 *)
(*                                                                         *)
(* Numbers.  A Python float is modelled as an exact rational <<n, d>> with *)
(* d > 0 in lowest terms; NaN is the pair <<0, 0>>.  Rounding is therefore *)
(* not modelled: an equality of the model is an equality "within floating  *)
(* tolerance" of the program.                                              *)
(***************************************************************************)
EXTENDS Integers, Sequences, FiniteSets, TLC

(***************************************************************************)
(* Rational arithmetic                                                     *)
(***************************************************************************)
Abs(n) == IF n < 0 THEN -n ELSE n

RECURSIVE GCD(_, _)
GCD(a, b) == IF b = 0 THEN a ELSE GCD(b, a % b)

Norm(n, d) ==
    LET s == IF d < 0 THEN -1 ELSE 1
        g == GCD(Abs(n), Abs(d))
    IN  IF n = 0 THEN <<0, 1>> ELSE <<(s * n) \div g, (s * d) \div g>>

R(n)       == <<n, 1>>
NaN        == <<0, 0>>
IsNaN(x)   == x = NaN
\* Python's None where a number is expected (an edge's time_min)
None_      == <<1, 0>>
IsNone(x)  == x = None_
\* the products are taken after cancelling common factors, so that close_time
\* (1e9) scaled by a small fraction stays within TLC's 32-bit integers
RAdd(x, y) ==
    LET g == GCD(x[2], y[2])
    IN  Norm(x[1] * (y[2] \div g) + y[1] * (x[2] \div g), x[2] * (y[2] \div g))
RNeg(x)    == <<-x[1], x[2]>>
RSub(x, y) == RAdd(x, RNeg(y))
RMul(x, y) ==
    LET g1 == GCD(Abs(x[1]), y[2])
        g2 == GCD(Abs(y[1]), x[2])
    IN  IF x[1] = 0 \/ y[1] = 0 THEN <<0, 1>>
        ELSE Norm((x[1] \div g1) * (y[1] \div g2), (x[2] \div g2) * (y[2] \div g1))
RInv(x)    == IF x[1] < 0 THEN <<-x[2], -x[1]>> ELSE <<x[2], x[1]>>
RDiv(x, y) == RMul(x, RInv(y))
RLe(x, y)  ==
    LET g == GCD(x[2], y[2])
    IN  x[1] * (y[2] \div g) <= y[1] * (x[2] \div g)
RLt(x, y)  == RLe(x, y) /\ x # y
RMax(x, y) == IF RLe(x, y) THEN y ELSE x
RMin(x, y) == IF RLe(x, y) THEN x ELSE y

Range(f) == {f[i] : i \in DOMAIN f}

(***************************************************************************)
(* pandas Series over hex labels: a function from a set of labels to       *)
(* rationals (or NaN).  hex_ids, a pd.Index, is a sequence of labels.      *)
(***************************************************************************)
\* Series.reindex(hex_ids).fillna(fill).astype(float)
reindex_fillna(s, hex_ids, fill) ==
    [h \in Range(hex_ids) |->
        IF h \in DOMAIN s /\ ~IsNaN(s[h]) THEN s[h] ELSE fill]

\* Series.sum() of a series indexed by hex_ids (NaN skipped)
RECURSIVE SumOver(_, _)
SumOver(s, ids) ==
    IF ids = <<>> THEN R(0)
    ELSE LET h == Head(ids)
             v == IF h \in DOMAIN s /\ ~IsNaN(s[h]) THEN s[h] ELSE R(0)
         IN  RAdd(v, SumOver(s, Tail(ids)))

series_sum(s, hex_ids) == SumOver(s, hex_ids)

\* pd.Series(value, index=hex_ids)
const_series(hex_ids, value) == [h \in Range(hex_ids) |-> value]

NoDuplicates(seq) == \A i, j \in DOMAIN seq : seq[i] = seq[j] => i = j

(***************************************************************************)
(* MassLayer (src/src/mass/layers.py): name, raw series, meta mapping.     *)
(* meta maps a key to a reference to a metadata value; the references are  *)
(* what a shallow dict(meta) copy shares.                                  *)
(***************************************************************************)
MassLayer(name, raw, meta) == [name |-> name, raw |-> raw, meta |-> meta]

\* mutant: the reindex leaves the missing hexes unfilled
reindex_to_hexes_nofill(layer, hex_ids) ==
    MassLayer(layer.name,
              [h \in Range(hex_ids) |->
                  IF h \in DOMAIN layer.raw THEN layer.raw[h] ELSE NaN],
              layer.meta)

\* MassLayer.reindex_to_hexes
reindex_to_hexes(layer, hex_ids) ==
    MassLayer(layer.name, reindex_fillna(layer.raw, hex_ids, R(0)), layer.meta)

\* MassLayer.copy
layer_copy(layer) == MassLayer(layer.name, layer.raw, layer.meta)

(***************************************************************************)
(* Mass edits (src/src/scenarios/scenario.py)                              *)
(***************************************************************************)
RedistributeLayerToHexes(layer, target_hex_ids, method) ==
    [kind |-> "redistribute_layer_to_hexes", layer |-> layer,
     target_hex_ids |-> target_hex_ids, method |-> method]

RemoveLayerFromComposite(layer) ==
    [kind |-> "remove_layer_from_composite", layer |-> layer]

\* a bare MassEdit(kind=...) instance: neither of the two variants
OtherMassEdit == [kind |-> "mass_edit"]

Ok(v)      == [ok |-> TRUE, val |-> v]
Raise(err) == [ok |-> FALSE, err |-> err]

(***************************************************************************)
(* _redistribute_series_to_targets (apply_mass_edits.py:12-49)             *)
(***************************************************************************)
\* out.loc[targets] = share, on out = pd.Series(0.0, index=hex_ids)
assign_scalar(hex_ids, targets, share) ==
    [h \in Range(hex_ids) |-> IF h \in Range(targets) THEN share ELSE R(0)]

\* s.loc[targets].clip(lower=0.0): one row per entry of targets
clipped_base(s, targets) ==
    [i \in DOMAIN targets |-> RMax(s[targets[i]], R(0))]

RECURSIVE SumSeq(_)
SumSeq(q) == IF q = <<>> THEN R(0) ELSE RAdd(Head(q), SumSeq(Tail(q)))

\* mutant: the targets are validated before the total is looked at
redistribute_series_targets_first(s0, hex_ids, target_hex_ids, method) ==
    LET s       == reindex_fillna(s0, hex_ids, R(0))
        total   == series_sum(s, hex_ids)
        targets == SelectSeq(target_hex_ids, LAMBDA h : h \in Range(hex_ids))
        n       == Len(targets)
        base    == clipped_base(s, targets)
        denom   == SumSeq(base)
    IN  IF n = 0 THEN Raise("ValueError")
        ELSE IF total = R(0) THEN Ok([h \in Range(hex_ids) |-> R(0)])
        ELSE IF method = "equal"
             THEN Ok(assign_scalar(hex_ids, targets, RDiv(total, R(n))))
        ELSE IF method = "proportional_to_existing"
             THEN IF RLe(denom, R(0))
                  THEN Ok(assign_scalar(hex_ids, targets, RDiv(total, R(n))))
                  ELSE Ok([h \in Range(hex_ids) |->
                            IF h \in Range(targets)
                            THEN RMul(RDiv(RMax(s[h], R(0)), denom), total)
                            ELSE R(0)])
        ELSE Raise("ValueError")

\* mutant: the values of the targets are not clipped at 0
redistribute_series_no_clip(s0, hex_ids, target_hex_ids, method) ==
    LET s       == reindex_fillna(s0, hex_ids, R(0))
        total   == series_sum(s, hex_ids)
        targets == SelectSeq(target_hex_ids, LAMBDA h : h \in Range(hex_ids))
        n       == Len(targets)
        denom   == SumSeq([i \in DOMAIN targets |-> s[targets[i]]])
    IN  IF total = R(0) THEN Ok([h \in Range(hex_ids) |-> R(0)])
        ELSE IF n = 0 THEN Raise("ValueError")
        ELSE IF method = "equal"
             THEN Ok(assign_scalar(hex_ids, targets, RDiv(total, R(n))))
        ELSE IF method = "proportional_to_existing"
             THEN IF RLe(denom, R(0))
                  THEN Ok(assign_scalar(hex_ids, targets, RDiv(total, R(n))))
                  ELSE Ok([h \in Range(hex_ids) |->
                            IF h \in Range(targets)
                            THEN RMul(RDiv(s[h], denom), total)
                            ELSE R(0)])
        ELSE Raise("ValueError")

redistribute_series_to_targets(s0, hex_ids, target_hex_ids, method) ==
    LET s       == reindex_fillna(s0, hex_ids, R(0))
        total   == series_sum(s, hex_ids)
        targets == SelectSeq(target_hex_ids, LAMBDA h : h \in Range(hex_ids))
        n       == Len(targets)
        base    == clipped_base(s, targets)
        denom   == SumSeq(base)
    IN  IF total = R(0) THEN Ok([h \in Range(hex_ids) |-> R(0)])
        ELSE IF n = 0 THEN Raise("ValueError")
        ELSE IF method = "equal"
             THEN Ok(assign_scalar(hex_ids, targets, RDiv(total, R(n))))
        ELSE IF method = "proportional_to_existing"
             THEN IF RLe(denom, R(0))
                  THEN Ok(assign_scalar(hex_ids, targets, RDiv(total, R(n))))
                  \* out.loc[targets] = (base / denom) * total: the value has
                  \* one row per entry of targets, rows of a repeated label
                  \* are equal, and denom counts each of them
                  ELSE Ok([h \in Range(hex_ids) |->
                            IF h \in Range(targets)
                            THEN RMul(RDiv(RMax(s[h], R(0)), denom), total)
                            ELSE R(0)])
        ELSE Raise("ValueError")

(***************************************************************************)
(* apply_mass_edits (apply_mass_edits.py:51-92)                            *)
(***************************************************************************)
\* line 67-68: the reindexed copies of the layers and the copy of weights
mass_edits_start(layers, weights, hex_ids) ==
    [layers  |-> [k \in DOMAIN layers |->
                     reindex_to_hexes(layer_copy(layers[k]), hex_ids)],
     weights |-> weights]

\* mutant: RemoveLayerFromComposite deletes the layer
mass_edit_step_del_layer(st, hex_ids, edit) ==
    IF edit.kind = "redistribute_layer_to_hexes"
    THEN IF edit.layer \notin DOMAIN st.layers THEN Raise("KeyError")
         ELSE LET layer == st.layers[edit.layer]
                  red   == redistribute_series_to_targets(
                               layer.raw, hex_ids, edit.target_hex_ids, edit.method)
              IN  IF ~red.ok THEN red
                  ELSE Ok([st EXCEPT !.layers[edit.layer] =
                              MassLayer(layer.name, red.val, layer.meta)])
    ELSE IF edit.kind = "remove_layer_from_composite"
    THEN Ok([layers  |-> [k \in DOMAIN st.layers \ {edit.layer} |-> st.layers[k]],
             weights |-> [k \in DOMAIN st.weights \cup {edit.layer} |->
                            IF k = edit.layer THEN R(0) ELSE st.weights[k]]])
    ELSE Raise("ValueError")

\* one iteration of the loop of lines 70-90 on st = [layers, weights]
mass_edit_step(st, hex_ids, edit) ==
    IF edit.kind = "redistribute_layer_to_hexes"
    THEN IF edit.layer \notin DOMAIN st.layers THEN Raise("KeyError")
         ELSE LET layer == st.layers[edit.layer]
                  red   == redistribute_series_to_targets(
                               layer.raw, hex_ids, edit.target_hex_ids, edit.method)
              IN  IF ~red.ok THEN red
                  ELSE Ok([st EXCEPT !.layers[edit.layer] =
                              MassLayer(layer.name, red.val, layer.meta)])
    ELSE IF edit.kind = "remove_layer_from_composite"
    THEN Ok([st EXCEPT !.weights =
                [k \in DOMAIN st.weights \cup {edit.layer} |->
                    IF k = edit.layer THEN R(0) ELSE st.weights[k]]])
    ELSE Raise("ValueError")

RECURSIVE mass_edits_loop(_, _, _)
mass_edits_loop(st, hex_ids, edits) ==
    IF edits = <<>> THEN Ok(st)
    ELSE LET r == mass_edit_step(st, hex_ids, Head(edits))
         IN  IF r.ok THEN mass_edits_loop(r.val, hex_ids, Tail(edits)) ELSE r

apply_mass_edits(layers, weights, hex_ids, mass_edits) ==
    mass_edits_loop(mass_edits_start(layers, weights, hex_ids), hex_ids, mass_edits)

(***************************************************************************)
(* Python values of edge attributes and where-filters: <<tag, text>> with  *)
(* tag one of "str", "int", "none", "list".  A "list" value names a        *)
(* mutable list object (a list-valued OSM attribute).  str() of a value:   *)
(***************************************************************************)
PyStr(s)  == <<"str", s>>
PyInt(s)  == <<"int", s>>
PyNone    == <<"none", "">>
PyList(s) == <<"list", s>>
py_str(v) == IF v[1] = "none" THEN PyStr("None") ELSE PyStr(v[2])

(***************************************************************************)
(* Network edits (src/src/scenarios/scenario.py)                           *)
(***************************************************************************)
CloseEdges(edges) == [kind |-> "close_edges", edges |-> edges]

\* where: a sequence of <<key, value>> pairs (a dict in insertion order); a
\* value is Scalar(v) for a Python value v or Coll(kind, q) for a collection
\* of the kind "list", "tuple" or "set" built from the elements q
Scalar(v)     == [coll |-> "", val |-> v, items |-> <<>>]
Coll(kind, q) == [coll |-> kind, val |-> PyNone, items |-> q]
SpeedFactorByAttribute(where, factor) ==
    [kind |-> "speed_factor_by_attribute", where |-> where, factor |-> factor]

RemoveTransitLine(route_id) ==
    [kind |-> "remove_transit_line", route_id |-> route_id]

OtherNetworkEdit == [kind |-> "network_edit"]

(***************************************************************************)
(* nx.MultiDiGraph: [nodes, edges], edges a function from <<u, v, key>> to *)
(* the edge's attribute dict (a function from attribute names to values).  *)
(***************************************************************************)
\* data.get(k)
data_get(data, k) == IF k \in DOMAIN data THEN data[k] ELSE PyNone

\* mutant: one key of where that agrees is enough
edge_matches_any_key(data, where) ==
    \E i \in DOMAIN where :
        LET k == where[i][1]
            v == where[i][2]
        IN  IF v.coll # "" THEN data_get(data, k) \in Range(v.items)
            ELSE data_get(data, k) = v.val

\* _edge_matches_where (apply_network_edits.py:12-26)
edge_matches_where(data, where) ==
    \A i \in DOMAIN where :
        LET k == where[i][1]
            v == where[i][2]
        IN  IF v.coll # "" THEN data_get(data, k) \in Range(v.items)
            ELSE data_get(data, k) = v.val

has_edge2(G, u, v)    == \E e \in DOMAIN G.edges : e[1] = u /\ e[2] = v
has_edge3(G, u, v, k) == <<u, v, k>> \in DOMAIN G.edges

\* data[attr] = value (the key is created when absent)
set_attr(data, attr, value) ==
    [a \in DOMAIN data \cup {attr} |-> IF a = attr THEN value ELSE data[a]]

\* mutant: a tuple (u, v, k) closes every parallel edge from u to v
close_one_all_keys(G, e, close_time) ==
    IF Len(e) \in {2, 3}
    THEN Ok([G EXCEPT !.edges =
            [x \in DOMAIN G.edges |->
                IF x[1] = e[1] /\ x[2] = e[2]
                THEN set_attr(G.edges[x], "time_min", close_time)
                ELSE G.edges[x]]])
    ELSE Raise("ValueError")

\* mutant: a tuple of a wrong arity is skipped like an absent edge
close_one_any_arity(G, e, close_time) ==
    Ok([G EXCEPT !.edges =
        [x \in DOMAIN G.edges |->
            IF \/ Len(e) = 2 /\ x[1] = e[1] /\ x[2] = e[2]
               \/ Len(e) = 3 /\ x = <<e[1], e[2], e[3]>>
            THEN set_attr(G.edges[x], "time_min", close_time)
            ELSE G.edges[x]]])

\* lines 47-59: one tuple of CloseEdges.edges
close_one(G, e, close_time) ==
    IF Len(e) = 2
    THEN Ok([G EXCEPT !.edges =
            [x \in DOMAIN G.edges |->
                IF x[1] = e[1] /\ x[2] = e[2]
                THEN set_attr(G.edges[x], "time_min", close_time)
                ELSE G.edges[x]]])
    ELSE IF Len(e) = 3
    THEN Ok([G EXCEPT !.edges =
            [x \in DOMAIN G.edges |->
                IF x = <<e[1], e[2], e[3]>>
                THEN set_attr(G.edges[x], "time_min", close_time)
                ELSE G.edges[x]]])
    ELSE Raise("ValueError")

RECURSIVE close_edges(_, _, _)
close_edges(G, edges, close_time) ==
    IF edges = <<>> THEN Ok(G)
    ELSE LET r == close_one(G, Head(edges), close_time)
         IN  IF r.ok THEN close_edges(r.val, Tail(edges), close_time) ELSE r

\* lines 63-69
speed_factor(G, where, factor) ==
    [G EXCEPT !.edges =
        [x \in DOMAIN G.edges |->
            LET data == G.edges[x]
            IN  IF edge_matches_where(data, where)
                   /\ "time_min" \in DOMAIN data /\ ~IsNone(data["time_min"])
                THEN set_attr(data, "time_min", RMul(data["time_min"], factor))
                ELSE data]]

\* lines 72-77
remove_transit_line(G, route_id, close_time) ==
    [G EXCEPT !.edges =
        [x \in DOMAIN G.edges |->
            LET data == G.edges[x]
            IN  IF data_get(data, "mode") = PyStr("transit")
                   /\ py_str(data_get(data, "route_id")) = py_str(route_id)
                THEN set_attr(data, "time_min", close_time)
                ELSE data]]

\* one iteration of the loop of lines 44-79
net_edit_step(G, edit, close_time) ==
    IF edit.kind = "close_edges" THEN close_edges(G, edit.edges, close_time)
    ELSE IF edit.kind = "speed_factor_by_attribute"
    THEN Ok(speed_factor(G, edit.where, edit.factor))
    ELSE IF edit.kind = "remove_transit_line"
    THEN Ok(remove_transit_line(G, edit.route_id, close_time))
    ELSE Raise("ValueError")

RECURSIVE net_edits_loop(_, _, _)
net_edits_loop(G, edits, close_time) ==
    IF edits = <<>> THEN Ok(G)
    ELSE LET r == net_edit_step(G, Head(edits), close_time)
         IN  IF r.ok THEN net_edits_loop(r.val, Tail(edits), close_time) ELSE r

\* G_base.copy(): the same nodes and edges, each attribute dict copied
graph_copy(G) == [nodes |-> G.nodes, edges |-> [x \in DOMAIN G.edges |-> G.edges[x]]]

\* apply_network_edits (apply_network_edits.py:28-81)
apply_network_edits(G_base, network_edits, close_time) ==
    net_edits_loop(graph_copy(G_base), network_edits, close_time)

(***************************************************************************)
(* Composite topography and BCI masses (src/src/mass/topography.py)        *)
(***************************************************************************)
\* Series.min() / Series.max() over the index ids (no NaN in s)
RECURSIVE SeriesMin(_, _)
SeriesMin(s, ids) ==
    IF Len(ids) = 1 THEN s[ids[1]] ELSE RMin(s[Head(ids)], SeriesMin(s, Tail(ids)))

RECURSIVE SeriesMax(_, _)
SeriesMax(s, ids) ==
    IF Len(ids) = 1 THEN s[ids[1]] ELSE RMax(s[Head(ids)], SeriesMax(s, Tail(ids)))

\* normalize_01 (topography.py:9-14, topo_weighted.py:5-10) of a series
\* indexed by ids
normalize_01(s0, ids) ==
    LET s  == [h \in Range(ids) |-> IF IsNaN(s0[h]) THEN R(0) ELSE s0[h]]
        mn == SeriesMin(s, ids)
        mx == SeriesMax(s, ids)
    IN  IF RLt(mn, mx)
        THEN [h \in Range(ids) |-> RDiv(RSub(s[h], mn), RSub(mx, mn))]
        ELSE [h \in Range(ids) |-> R(0)]

\* topo_rules: None or a dict, here a function from rule names to values
rules_get(topo_rules, k, default) ==
    IF k \in DOMAIN topo_rules THEN topo_rules[k] ELSE default

\* the sum over the layers of w_k * layer_k at hex h (topography.py:57-66)
RECURSIVE SumContrib(_, _, _, _, _)
SumContrib(names, layers, weights, hex_ids, h) ==
    IF names = {} THEN R(0)
    ELSE LET k == CHOOSE x \in names : TRUE
             w == IF k \in DOMAIN weights THEN weights[k] ELSE R(1)
             s == reindex_to_hexes(layers[k], hex_ids).raw
         IN  RAdd(RMul(w, s[h]),
                  SumContrib(names \ {k}, layers, weights, hex_ids, h))

\* build_composite_topography(...).topo (topography.py:32-87); log1p and the
\* z-score are outside the rules used
build_composite_topography(layers, weights, hex_ids, topo_rules) ==
    LET normalize_mode == rules_get(topo_rules, "normalize", "none")
        clip_min == rules_get(topo_rules, "clip_min", None_)
        clip_max == rules_get(topo_rules, "clip_max", None_)
        topo0 == [h \in Range(hex_ids) |->
                     SumContrib(DOMAIN layers, layers, weights, hex_ids, h)]
        topo1 == IF IsNone(clip_min) THEN topo0
                 ELSE [h \in Range(hex_ids) |-> RMax(topo0[h], clip_min)]
        topo2 == IF IsNone(clip_max) THEN topo1
                 ELSE [h \in Range(hex_ids) |-> RMin(topo1[h], clip_max)]
    IN  IF normalize_mode = "01" THEN normalize_01(topo2, hex_ids) ELSE topo2

\* build_bci_masses (topography.py:89-108): (market, labour) = (P * Y, L)
build_bci_masses(population, income, labour, hex_ids) ==
    LET P == reindex_fillna(population, hex_ids, R(0))
        Y == reindex_fillna(income, hex_ids, R(0))
        L == reindex_fillna(labour, hex_ids, R(0))
    IN  <<[h \in Range(hex_ids) |-> RMul(P[h], Y[h])], L>>

(***************************************************************************)
(* Topography-weighted graph (src/src/network/topo_weighted.py) and the    *)
(* scenario graph (src/src/network/build_scenario_graph.py)                *)
(***************************************************************************)
\* topo01.get(node_to_hex.get(n), 0.0), 0.0 for an unmapped node
node_topo(topo01, node_to_hex, n) ==
    IF n \in DOMAIN node_to_hex /\ node_to_hex[n] \in DOMAIN topo01
    THEN topo01[node_to_hex[n]] ELSE R(0)

\* mutant: the penalty takes the sum of the two topographies, not their mean
build_topo_weighted_graph_sum(G_base, topo_hex, hex_ids, node_to_hex, gamma) ==
    LET G      == graph_copy(G_base)
        topo01 == normalize_01(topo_hex, hex_ids)
    IN  [G EXCEPT !.edges =
            [x \in DOMAIN G.edges |->
                LET data == G.edges[x]
                    mu   == node_topo(topo01, node_to_hex, x[1])
                    mv   == node_topo(topo01, node_to_hex, x[2])
                    penalty == RAdd(R(1), RMul(gamma, RAdd(mu, mv)))
                IN  IF "time_min" \in DOMAIN data /\ ~IsNone(data["time_min"])
                    THEN set_attr(data, "time_min", RMul(data["time_min"], penalty))
                    ELSE data]]

\* topo_hex is a series indexed by hex_ids
build_topo_weighted_graph(G_base, topo_hex, hex_ids, node_to_hex, gamma) ==
    LET G      == graph_copy(G_base)
        topo01 == normalize_01(topo_hex, hex_ids)
    IN  [G EXCEPT !.edges =
            [x \in DOMAIN G.edges |->
                LET data == G.edges[x]
                    mu   == node_topo(topo01, node_to_hex, x[1])
                    mv   == node_topo(topo01, node_to_hex, x[2])
                    penalty == RAdd(R(1), RMul(RMul(gamma, <<1, 2>>), RAdd(mu, mv)))
                IN  IF "time_min" \in DOMAIN data /\ ~IsNone(data["time_min"])
                    THEN set_attr(data, "time_min", RMul(data["time_min"], penalty))
                    ELSE data]]

\* mutant: the network edits are not applied
build_scenario_graph_no_edits(G_base, topo_hex, hex_ids, node_to_hex, scenario, close_time) ==
    Ok(build_topo_weighted_graph(G_base, topo_hex, hex_ids, node_to_hex, scenario.gamma))

\* build_scenario_graph (build_scenario_graph.py:9-34)
build_scenario_graph(G_base, topo_hex, hex_ids, node_to_hex, scenario, close_time) ==
    LET G_edit == apply_network_edits(G_base, scenario.network_edits, close_time)
    IN  IF ~G_edit.ok THEN G_edit
        ELSE Ok(build_topo_weighted_graph(G_edit.val, topo_hex, hex_ids,
                                          node_to_hex, scenario.gamma))

(***************************************************************************)
(* Travel times (src/src/network/dijkstra.py).  The weights are not        *)
(* negative.  A search from s yields lengths: node -> distance for the     *)
(* nodes within the cutoff, or fails.                                      *)
(***************************************************************************)
\* the time_min values of the parallel edges u -> v, 1 for an edge without one
edge_costs(G, u, v) ==
    [x \in {e \in DOMAIN G.edges : e[1] = u /\ e[2] = v} |->
        IF "time_min" \in DOMAIN G.edges[x] THEN G.edges[x]["time_min"] ELSE R(1)]

RECURSIVE MinOf(_)
MinOf(S) ==
    LET x == CHOOSE y \in S : TRUE
    IN  IF S = {x} THEN x ELSE RMin(x, MinOf(S \ {x}))

\* min(attr.get(weight, 1) for attr in d.values()): comparing None raises
cost_fails(G, u, v) ==
    LET c == edge_costs(G, u, v)
    IN  Cardinality(DOMAIN c) >= 2 /\ \E x \in DOMAIN c : IsNone(c[x])

\* the cost of u -> v: None_ when there is no usable edge
edge_cost(G, u, v) ==
    LET c == edge_costs(G, u, v)
    IN  IF DOMAIN c = {} \/ \E x \in DOMAIN c : IsNone(c[x]) THEN None_
        ELSE MinOf(Range(c))

\* mutant: the cutoff is not applied
relax_no_cutoff(G, d, cutoff) ==
    [v \in G.nodes |->
        LET cands == {RAdd(d[u], edge_cost(G, u, v)) :
                        u \in {w \in G.nodes : /\ ~IsNone(d[w])
                                               /\ ~IsNone(edge_cost(G, w, v))}}
            all   == cands \cup (IF IsNone(d[v]) THEN {} ELSE {d[v]})
        IN  IF all = {} THEN None_ ELSE MinOf(all)]

\* one round of relaxations; a path longer than the cutoff is not extended
relax(G, d, cutoff) ==
    [v \in G.nodes |->
        LET cands == {RAdd(d[u], edge_cost(G, u, v)) :
                        u \in {w \in G.nodes : /\ ~IsNone(d[w])
                                               /\ ~IsNone(edge_cost(G, w, v))}}
            within == {c \in cands : RLe(c, cutoff)}
            all    == within \cup (IF IsNone(d[v]) THEN {} ELSE {d[v]})
        IN  IF all = {} THEN None_ ELSE MinOf(all)]

RECURSIVE relax_n(_, _, _, _)
relax_n(G, d, cutoff, n) ==
    IF n = 0 THEN d ELSE relax_n(G, relax(G, d, cutoff), cutoff, n - 1)

\* mutant: a source that is no node of G reaches nothing instead of raising
single_source_no_node_check(G, source, cutoff) ==
    IF source \notin G.nodes THEN Ok(<<>>)
    ELSE LET d0 == [v \in G.nodes |-> IF v = source THEN R(0) ELSE None_]
             d  == relax_n(G, d0, cutoff, Cardinality(G.nodes))
             reached == {v \in G.nodes : ~IsNone(d[v])}
         IN  IF \E u \in reached, v \in G.nodes : cost_fails(G, u, v)
             THEN Raise("TypeError")
             ELSE Ok([v \in reached |-> d[v]])

\* nx.single_source_dijkstra_path_length(G, source, cutoff, weight="time_min")
single_source_dijkstra_path_length(G, source, cutoff) ==
    IF source \notin G.nodes THEN Raise("NodeNotFound")
    ELSE LET d0 == [v \in G.nodes |-> IF v = source THEN R(0) ELSE None_]
             d  == relax_n(G, d0, cutoff, Cardinality(G.nodes))
             reached == {v \in G.nodes : ~IsNone(d[v])}
         IN  IF \E u \in reached, v \in G.nodes : cost_fails(G, u, v)
             THEN Raise("TypeError")
             ELSE Ok([v \in reached |-> d[v]])

\* compute_hex_travel_times (dijkstra.py:5-53): hex_to_node is a function
\* from hexes to nodes; a source whose search fails contributes no row
compute_hex_travel_times(G, hex_to_node, max_time) ==
    LET lengths(n) == single_source_dijkstra_path_length(G, n, max_time)
        origins == {o \in DOMAIN hex_to_node : lengths(hex_to_node[o]).ok}
    IN  [o \in origins |->
            LET len == lengths(hex_to_node[o]).val
            IN  [dd \in {x \in DOMAIN hex_to_node : hex_to_node[x] \in DOMAIN len}
                    |-> len[hex_to_node[dd]]]]

\* the number of searches of one call: one per distinct node of hex_to_node
searches_of(hex_to_node) == Cardinality(Range(hex_to_node))

(***************************************************************************)
(* Hansen accessibility and the normalisations (src/src/indices/hansen.py) *)
(* A decay rate beta is given as the multiple b of ln 2 (beta = b * ln 2), *)
(* so that exp(-beta * t) = 2^(-b * t) is a rational when b * t is a       *)
(* natural number, which the inputs of the runs see to.                    *)
(***************************************************************************)
RECURSIVE Pow2(_)
Pow2(k) == IF k = 0 THEN 1 ELSE 2 * Pow2(k - 1)

\* np.exp(-x), x = b * t in units of ln 2
exp_neg(x) ==
    LET k == CHOOSE n \in 0..x[1] : R(n) = x
    IN  <<1, Pow2(k)>>

\* betas.get(key, 0.08): the default 0.08 is taken as ln 2 / 8
BETA_DEFAULT == <<1, 8>>
betas_get(betas, key) == IF key \in DOMAIN betas THEN betas[key] ELSE BETA_DEFAULT

DEFAULT_MEDIAN_HOURLY_WAGE == <<25, 1>>
MIN_HOURLY_WAGE            == <<29, 4>>

\* income_cost_penalty_minutes (hansen.py:9-27); NaN for no usable income
income_cost_penalty_minutes(annual_income, mode_cost, fallback_hourly_wage) ==
    LET hourly_wage ==
            IF IsNaN(annual_income) \/ RLe(annual_income, R(0))
            THEN fallback_hourly_wage
            ELSE RMax(RDiv(annual_income, R(2080)), MIN_HOURLY_WAGE)
    IN  IF RLe(mode_cost, R(0)) THEN R(0)
        ELSE RMul(RDiv(mode_cost, hourly_wage), R(60))

\* the sum over the destinations of tt of m * exp(-beta * (t + penalty)),
\* a destination of mass <= 0 skipped
RECURSIVE SumDecay(_, _, _, _, _)
SumDecay(dests, tt, dest_mass, beta, penalty) ==
    IF dests = {} THEN R(0)
    ELSE LET j == CHOOSE x \in dests : TRUE
             m == IF j \in DOMAIN dest_mass THEN dest_mass[j] ELSE R(0)
             term == IF RLe(m, R(0)) THEN R(0)
                     ELSE RMul(m, exp_neg(RMul(beta, RAdd(tt[j], penalty))))
         IN  RAdd(term, SumDecay(dests \ {j}, tt, dest_mass, beta, penalty))

\* hansen_accessibility (hansen.py:29-74); ids is dest_mass.index; has_income
\* tells whether an income series was passed
hansen_accessibility(travel_times, dest_mass0, ids, beta, has_income, income, mode_cost) ==
    LET dest_mass == reindex_fillna(dest_mass0, ids, R(0))
    IN  [o \in Range(ids) |->
            IF o \notin DOMAIN travel_times \/ DOMAIN travel_times[o] = {}
            THEN R(0)
            ELSE LET annual  == IF o \in DOMAIN income THEN income[o] ELSE NaN
                     penalty == IF has_income /\ RLt(R(0), mode_cost)
                                THEN income_cost_penalty_minutes(
                                         annual, mode_cost, DEFAULT_MEDIAN_HOURLY_WAGE)
                                ELSE R(0)
                 IN  SumDecay(DOMAIN travel_times[o], travel_times[o],
                              dest_mass, beta, penalty)]

\* the values of s that are not NaN
non_nan(s) == {s[h] : h \in {x \in DOMAIN s : ~IsNaN(s[x])}}

RECURSIVE MaxOf(_)
MaxOf(S) ==
    LET x == CHOOSE y \in S : TRUE
    IN  IF S = {x} THEN x ELSE RMax(x, MaxOf(S \ {x}))

\* mutant: the minimum is not subtracted
normalize_minmax_no_shift(s, scale) ==
    LET vals == non_nan(s)
    IN  IF vals # {} /\ RLt(MinOf(vals), MaxOf(vals))
        THEN [h \in DOMAIN s |->
                IF IsNaN(s[h]) THEN NaN
                ELSE RMul(RDiv(s[h], RSub(MaxOf(vals), MinOf(vals))), scale)]
        ELSE [h \in DOMAIN s |-> RDiv(scale, R(2))]

\* normalize_minmax (hansen.py:76-81)
normalize_minmax(s, scale) ==
    LET vals == non_nan(s)
    IN  IF vals # {} /\ RLt(MinOf(vals), MaxOf(vals))
        THEN [h \in DOMAIN s |->
                IF IsNaN(s[h]) THEN NaN
                ELSE RMul(RDiv(RSub(s[h], MinOf(vals)),
                               RSub(MaxOf(vals), MinOf(vals))), scale)]
        ELSE [h \in DOMAIN s |-> RDiv(scale, R(2))]

\* normalize_div_max (hansen.py:83-92)
normalize_div_max(s) ==
    LET vals == non_nan(s)
    IN  IF vals # {} /\ RLt(R(0), MaxOf(vals))
        THEN [h \in DOMAIN s |-> IF IsNaN(s[h]) THEN NaN ELSE RDiv(s[h], MaxOf(vals))]
        ELSE [h \in DOMAIN s |-> R(0)]

\* Series.rank(pct=True): the average rank of a value over the number of
\* values (no NaN in s)
rank_pct(s) ==
    [h \in DOMAIN s |->
        LET less  == Cardinality({x \in DOMAIN s : RLt(s[x], s[h])})
            equal == Cardinality({x \in DOMAIN s : s[x] = s[h]})
        IN  RDiv(RAdd(R(less), RDiv(R(equal + 1), R(2))), R(Cardinality(DOMAIN s)))]

(***************************************************************************)
(* PCI (src/src/indices/pci.py) and BCI (src/src/indices/bci.py)           *)
(***************************************************************************)
ACTIVE_LAYERS == {"food_retail", "community"}

RECURSIVE SumLayers(_, _, _, _)
SumLayers(names, layers, hex_ids, h) ==
    IF names = {} THEN R(0)
    ELSE LET k == CHOOSE x \in names : TRUE
         IN  RAdd(reindex_fillna(layers[k].raw, hex_ids, R(0))[h],
                  SumLayers(names \ {k}, layers, hex_ids, h))

\* compute_active_street_score (pci.py:9-23)
compute_active_street_score(hex_ids, layers) ==
    rank_pct([h \in Range(hex_ids) |->
                 SumLayers(ACTIVE_LAYERS \cap DOMAIN layers, layers, hex_ids, h)])

\* compute_park_coverage (pci.py:25-36)
compute_park_coverage(hex_area_m2, parks_area_m2, hex_ids) ==
    LET a_hex  == [h \in Range(hex_ids) |->
                     IF h \in DOMAIN hex_area_m2 THEN hex_area_m2[h] ELSE NaN]
        a_park == reindex_fillna(parks_area_m2, hex_ids, R(0))
    IN  [h \in Range(hex_ids) |->
            IF IsNaN(a_hex[h]) \/ a_hex[h] = R(0) THEN R(0)
            ELSE RDiv(a_park[h], a_hex[h])]

\* mutant: a coverage equal to the threshold is masked too
compute_pci_mask_ge(travel_times, topo_mass, hex_ids, layers, betas, income, mode_cost, active_lambda, park_mask_enabled, park_mask_threshold, has_area, hex_area_m2) ==
    LET beta == betas_get(betas, "pci")
        A    == hansen_accessibility(travel_times, topo_mass, hex_ids, beta,
                                     TRUE, income, mode_cost)
        A_n  == normalize_minmax(A, R(100))
        active_score == compute_active_street_score(hex_ids, layers)
        pci_raw == [h \in Range(hex_ids) |->
                      RMul(A_n[h], RAdd(R(1), RMul(active_lambda, active_score[h])))]
        pci   == normalize_minmax(pci_raw, R(100))
        parks == reindex_fillna(layers["parks"].raw, hex_ids, R(0))
        is_ratio == RLe(SeriesMax(parks, hex_ids), <<3, 2>>)
        coverage == IF is_ratio THEN parks
                    ELSE compute_park_coverage(hex_area_m2, parks, hex_ids)
    IN  IF park_mask_enabled /\ "parks" \in DOMAIN layers
        THEN IF ~is_ratio /\ ~has_area THEN Raise("ValueError")
             ELSE Ok([h \in Range(hex_ids) |->
                        IF RLe(park_mask_threshold, coverage[h]) THEN NaN ELSE pci[h]])
        ELSE Ok(pci)

\* compute_pci (pci.py:38-101); hex_ids is topo_mass.index; has_area tells
\* whether hex_area_m2 is not None
compute_pci(travel_times, topo_mass, hex_ids, layers, betas, income, mode_cost, active_lambda, park_mask_enabled, park_mask_threshold, has_area, hex_area_m2) ==
    LET beta == betas_get(betas, "pci")
        A    == hansen_accessibility(travel_times, topo_mass, hex_ids, beta,
                                     TRUE, income, mode_cost)
        A_n  == normalize_minmax(A, R(100))
        active_score == compute_active_street_score(hex_ids, layers)
        pci_raw == [h \in Range(hex_ids) |->
                      RMul(A_n[h], RAdd(R(1), RMul(active_lambda, active_score[h])))]
        pci   == normalize_minmax(pci_raw, R(100))
        parks == reindex_fillna(layers["parks"].raw, hex_ids, R(0))
        is_ratio == RLe(SeriesMax(parks, hex_ids), <<3, 2>>)
        coverage == IF is_ratio THEN parks
                    ELSE compute_park_coverage(hex_area_m2, parks, hex_ids)
    IN  IF park_mask_enabled /\ "parks" \in DOMAIN layers
        THEN IF ~is_ratio /\ ~has_area THEN Raise("ValueError")
             ELSE Ok([h \in Range(hex_ids) |->
                        IF RLt(park_mask_threshold, coverage[h]) THEN NaN ELSE pci[h]])
        ELSE Ok(pci)

\* compute_bci_masses (bci.py:7-21)
compute_bci_masses(population, income, labour, hex_ids) ==
    build_bci_masses(population, income, labour, hex_ids)

\* compute_bci (bci.py:23-83) with combine="weight_free"; hex_ids is
\* population.index; has_interface tells whether interface is not None
compute_bci(travel_times, population, income, labour, hex_ids, betas, has_interface, interface, interface_lambda) ==
    LET masses   == compute_bci_masses(population, income, labour, hex_ids)
        A_market == hansen_accessibility(travel_times, masses[1], hex_ids,
                        betas_get(betas, "market"), FALSE, income, R(0))
        A_labour == hansen_accessibility(travel_times, masses[2], hex_ids,
                        betas_get(betas, "labour"), FALSE, income, R(0))
        nm == normalize_div_max(A_market)
        nl == normalize_div_max(A_labour)
        bci0 == [h \in Range(hex_ids) |-> RAdd(nm[h], nl[h])]
        iface01 == rank_pct(reindex_fillna(interface, hex_ids, R(0)))
        bci_raw == IF has_interface /\ interface_lambda # R(0)
                   THEN [h \in Range(hex_ids) |->
                           RMul(bci0[h], RAdd(R(1), RMul(interface_lambda, iface01[h])))]
                   ELSE bci0
    IN  [A_market |-> A_market, A_labour |-> A_labour,
         BCI |-> normalize_minmax(bci_raw, R(100))]

(***************************************************************************)
(* Structural keys (src/src/scenarios/artifacts.py, runner.py:60-79).      *)
(* A Python dict is a sequence of <<key, value>> pairs in insertion order. *)
(* The JSON text of json.dumps(obj, sort_keys=True, default=str) is a      *)
(* sequence of tokens.  md5 is taken to be injective: the digest of a text *)
(* is the text between two marks.                                          *)
(***************************************************************************)
dict_keys(d)   == {d[i][1] : i \in DOMAIN d}
dict_get(d, k) == d[CHOOSE i \in DOMAIN d : d[i][1] = k][2]
dict_fn(d)     == [k \in dict_keys(d) |-> dict_get(d, k)]

\* {**a, **b} of two mappings
dict_merge(a, b) ==
    [k \in DOMAIN a \cup DOMAIN b |-> IF k \in DOMAIN b THEN b[k] ELSE a[k]]

\* the keys of the dicts that are serialised, in the order of sorted()
KEY_ORDER ==
    <<"active_lambda", "betas", "clip_max", "clip_min", "combine",
      "community", "edges", "factor", "food_retail", "gamma", "graph_key",
      "interface_lambda", "kind", "labour", "layer", "market", "mass_edits",
      "mass_key", "max_time", "method", "mode", "mode_cost", "name",
      "network_edits", "normalize", "park_mask_enabled",
      "park_mask_threshold", "parks", "pci", "route_id", "source",
      "target_hex_ids", "topo_key", "topo_rules", "tt_key", "weights",
      "where">>

RECURSIVE Concat(_)
Concat(ss) == IF ss = <<>> THEN <<>> ELSE Head(ss) \o Concat(Tail(ss))

json_str(s)   == <<"str", s>>
json_num(x)   == <<"num", ToString(x[1]), ToString(x[2])>>
json_bool(b)  == <<IF b THEN "true" ELSE "false">>
json_null     == <<"null">>
json_pyval(v) == IF v[1] = "none" THEN json_null ELSE <<v[1], v[2]>>
json_list(items) == <<"[">> \o Concat(items) \o <<"]">>

\* a dict whose values are JSON texts, with sort_keys=True
json_dict(d) ==
    LET ks == SelectSeq(KEY_ORDER, LAMBDA k : k \in dict_keys(d))
    IN  <<"{">> \o Concat([i \in DOMAIN ks |-> <<ks[i]>> \o dict_get(d, ks[i])])
              \o <<"}">>

json_num_dict(d) == json_dict([i \in DOMAIN d |-> <<d[i][1], json_num(d[i][2])>>])

md5(text) == <<"md5(">> \o text \o <<")">>

\* stable_hash (artifacts.py:4-6) of a dict whose values are JSON texts
stable_hash(payload) == md5(json_dict(payload))

\* str(set), reached through default=str: the elements in the iteration
\* order of the set, which depends on the hash seed of the process
Reverse(q)       == [i \in DOMAIN q |-> q[Len(q) + 1 - i]]
canon(S)         == CHOOSE q \in [1..Cardinality(S) -> S] : Range(q) = S
set_iter(S, seed) == IF seed = 1 THEN canon(S) ELSE Reverse(canon(S))

json_where_value(v, seed) ==
    IF v.coll = "" THEN json_pyval(v.val)
    ELSE IF v.coll = "set"
    THEN LET q == set_iter(Range(v.items), seed)
         IN  <<"str", "{">> \o Concat([i \in DOMAIN q |-> json_pyval(q[i])]) \o <<"}">>
    ELSE json_list([i \in DOMAIN v.items |-> json_pyval(v.items[i])])

\* e.__dict__ of a mass edit, values as JSON texts
mass_edit_dict(e) ==
    IF e.kind = "redistribute_layer_to_hexes"
    THEN << <<"kind", json_str(e.kind)>>, <<"layer", json_str(e.layer)>>,
            <<"target_hex_ids",
              json_list([i \in DOMAIN e.target_hex_ids |-> json_str(e.target_hex_ids[i])])>>,
            <<"method", json_str(e.method)>> >>
    ELSE IF e.kind = "remove_layer_from_composite"
    THEN << <<"kind", json_str(e.kind)>>, <<"layer", json_str(e.layer)>> >>
    ELSE << <<"kind", json_str(e.kind)>> >>

\* e.__dict__ of a network edit, values as JSON texts
network_edit_dict(e, seed) ==
    IF e.kind = "close_edges"
    THEN << <<"kind", json_str(e.kind)>>,
            <<"edges",
              json_list([i \in DOMAIN e.edges |->
                  json_list([j \in DOMAIN e.edges[i] |-> json_str(e.edges[i][j])])])>> >>
    ELSE IF e.kind = "speed_factor_by_attribute"
    THEN << <<"kind", json_str(e.kind)>>,
            <<"where",
              json_dict([i \in DOMAIN e.where |->
                  <<e.where[i][1], json_where_value(e.where[i][2], seed)>>])>>,
            <<"factor", json_num(e.factor)>> >>
    ELSE IF e.kind = "remove_transit_line"
    THEN << <<"kind", json_str(e.kind)>>, <<"route_id", json_pyval(e.route_id)>> >>
    ELSE << <<"kind", json_str(e.kind)>> >>

\* the JSON text of a topo_rules dict
json_rules(d) ==
    json_dict([i \in DOMAIN d |->
        <<d[i][1], IF d[i][1] = "normalize" THEN json_str(d[i][2])
                   ELSE json_num(d[i][2])>>])

\* ScenarioRunner._mass_key (runner.py:60-67), for a scenario object that
\* has the attribute topo_rules
mass_key_of(scenario) ==
    stable_hash(<<
        <<"mass_edits", json_list([i \in DOMAIN scenario.mass_edits |->
                            json_dict(mass_edit_dict(scenario.mass_edits[i]))])>>,
        <<"weights", json_num_dict(scenario.weights)>>,
        <<"topo_rules", json_rules(scenario.topo_rules)>> >>)

\* ScenarioRunner._graph_key (runner.py:69-76)
graph_key_of(scenario, topo_key, seed) ==
    stable_hash(<<
        <<"network_edits", json_list([i \in DOMAIN scenario.network_edits |->
                json_dict(network_edit_dict(scenario.network_edits[i], seed))])>>,
        <<"gamma", json_num(scenario.gamma)>>,
        <<"topo_key", topo_key>> >>)

\* ScenarioRunner._travel_times_key (runner.py:78-79)
travel_times_key_of(graph_key, max_time) ==
    stable_hash(<< <<"graph_key", graph_key>>, <<"max_time", json_num(max_time)>> >>)

\* runner.py:103, 117, 134
layers_key_of(mass_key) ==
    stable_hash(<< <<"mass_key", mass_key>>, <<"kind", json_str("layers_applied")>> >>)
topo_key_of(mass_key) ==
    stable_hash(<< <<"mass_key", mass_key>>, <<"kind", json_str("topo_pci")>> >>)
bci_mass_key_of ==
    stable_hash(<< <<"kind", json_str("bci_masses")>>,
                   <<"source", json_str("base_assets")>> >>)

\* runner.py:168-176
pci_key_of(scenario, tt_key, topo_key) ==
    stable_hash(<<
        <<"tt_key", tt_key>>, <<"topo_key", topo_key>>,
        <<"betas", json_num_dict(scenario.betas)>>,
        <<"active_lambda", json_num(scenario.active_lambda)>>,
        <<"mode_cost", json_num(scenario.mode_cost)>>,
        <<"park_mask_enabled", json_bool(scenario.park_mask_enabled)>>,
        <<"park_mask_threshold", json_num(scenario.park_mask_threshold)>> >>)

\* runner.py:194-199
bci_key_of(scenario, tt_key) ==
    stable_hash(<<
        <<"tt_key", tt_key>>,
        <<"betas", json_num_dict(scenario.betas)>>,
        <<"combine", json_str("weight_free")>>,
        <<"interface_lambda", json_num(scenario.interface_lambda)>> >>)

(***************************************************************************)
(* ArtifactStore (src/src/scenarios/artifacts.py): the files of the root   *)
(* directory, a function from <<name, key>> to the pickled object.         *)
(***************************************************************************)
pickle_dumps(obj) == [pickle |-> obj]
pickle_loads(b)   == b.pickle

\* ArtifactStore.load: the unpickled object, or None when no file exists
Nil == [nil |-> TRUE]
store_load(files, name, key) ==
    IF <<name, key>> \in DOMAIN files
    THEN [some |-> TRUE, obj |-> pickle_loads(files[<<name, key>>])]
    ELSE [some |-> FALSE, obj |-> Nil]

\* ArtifactStore.save: the files after the call
store_save(files, name, key, obj) ==
    [p \in DOMAIN files \cup {<<name, key>>} |->
        IF p = <<name, key>> THEN pickle_dumps(obj) ELSE files[p]]

\* a stage that opens the file of its artifact before computing it
aborted_leaves_file(files, name, key) == store_save(files, name, key, Nil)

\* the files after a stage whose computation raised: the exception leaves
\* run() before the stage's store.save(name, key, ...) is reached
aborted(files, name, key) == files

(***************************************************************************)
(* State.  eng: a call of one of the two edit engines, at its position in  *)
(* the loop over the edits.  heap, al: the objects of an engine call and   *)
(* of its result (SpecAlias).  store, run, hist: the artifact store, the   *)
(* scenario run in progress and the runs that ended (Spec).                *)
(***************************************************************************)
VARIABLES eng, heap, al, store, run, hist

vars == <<eng, heap, al, store, run, hist>>

Idle == [which |-> "idle"]

(***************************************************************************)
(* Inputs of the engine calls                                              *)
(***************************************************************************)
MaxEdits    == 2    \* edits in one edit list
MaxTargets  == 2    \* entries of target_hex_ids
MaxTuples   == 2    \* tuples of CloseEdges.edges
CLOSE_TIME  == 1000000000

\* sequences over S of length at most n
SeqsUpTo(S, n) == UNION {[1..k -> S] : k \in 0..n}

EHexIds    == <<"h1", "h2", "h3">>
ELabels    == {"h1", "h2", "hx"}            \* "hx" is not a hex of the index
MassValues == {R(-2), R(0), R(4)}

InRawSeries ==
    [{"h1", "h2", "h3"} -> MassValues] \cup [{"h1", "hx"} -> MassValues \cup {NaN}]

ParksRaw == [h \in {"h1", "h2", "h3"} |-> IF h = "h3" THEN R(1) ELSE R(0)]

InLayers(raw) ==
    [k \in {"food_retail", "parks"} |->
        IF k = "food_retail"
        THEN MassLayer("food_retail", raw, [source |-> PyList("m1")])
        ELSE MassLayer("parks", ParksRaw, [source |-> PyStr("osm")])]

InWeights == [k \in {"food_retail", "parks"} |-> IF k = "parks" THEN R(0) ELSE R(1)]

Methods == {"equal", "proportional_to_existing", "nearest"}

MassEditInputs ==
    {RedistributeLayerToHexes("food_retail", tg, m) :
        tg \in SeqsUpTo(ELabels, MaxTargets), m \in Methods}
    \cup {RedistributeLayerToHexes("cafes", <<"h1">>, "equal")}
    \cup {RemoveLayerFromComposite(l) : l \in {"food_retail", "parks", "cafes"}}
    \cup {OtherMassEdit}

\* base networks: two parallel edges a -> b, a transit line, an edge with no
\* time_min and one whose time_min is None
InGraph(t) ==
    [nodes |-> {"a", "b", "c"},
     edges |->
        [x \in {<<"a", "b", "0">>, <<"a", "b", "1">>, <<"b", "c", "0">>,
                <<"c", "a", "0">>, <<"c", "b", "0">>} |->
            IF x = <<"a", "b", "0">>
            THEN [time_min |-> t, mode |-> PyStr("walk"), name |-> PyList("n1")]
            ELSE IF x = <<"a", "b", "1">>
            THEN [time_min |-> R(2), mode |-> PyStr("transit"), route_id |-> PyInt("7")]
            ELSE IF x = <<"b", "c", "0">>
            THEN [time_min |-> R(3), mode |-> PyStr("transit"), route_id |-> PyStr("7")]
            ELSE IF x = <<"c", "a", "0">>
            THEN [mode |-> PyStr("bike")]
            ELSE [time_min |-> None_, mode |-> PyStr("transit")]]]

InGraphs == {InGraph(R(4)), InGraph(R(8))}

EdgeTuples ==
    {<<"a", "b">>, <<"a", "b", "1">>, <<"b", "a">>, <<"a", "b", "9">>, <<"a">>}

Wheres ==
    {<<>>,
     << <<"mode", Scalar(PyStr("walk"))>> >>,
     << <<"mode", Coll("list", <<PyStr("transit"), PyStr("bike")>>)>> >>,
     << <<"mode", Scalar(PyStr("transit"))>>, <<"route_id", Scalar(PyInt("7"))>> >>,
     << <<"route_id", Scalar(PyNone)>> >>}

Factors == {<<1, 2>>, <<5, 4>>}

NetEditInputs ==
    {CloseEdges(es) : es \in SeqsUpTo(EdgeTuples, MaxTuples)}
    \cup {SpeedFactorByAttribute(w, f) : w \in Wheres, f \in Factors}
    \cup {RemoveTransitLine(r) : r \in {PyStr("7"), PyInt("7"), PyStr("9"), PyNone}}
    \cup {OtherNetworkEdit}

NoEdit == [kind |-> "none"]

(***************************************************************************)
(* SpecEdit: a call apply_mass_edits(layers, weights, hex_ids, mass_edits) *)
(* or apply_network_edits(G_base, network_edits), one action per iteration *)
(* of the loop over the edit list; the list is any list of at most         *)
(* MaxEdits edits.  cur is the engine's working copy, prev the copy before *)
(* the last edit, ret what the call returned or raised.                    *)
(***************************************************************************)
NoRet == [ok |-> FALSE, err |-> "running"]

InitEdit ==
    /\ \/ \E raw \in InRawSeries :
            eng = [which |-> "mass", pc |-> "loop", n |-> 0, last |-> NoEdit,
                   hex_ids |-> EHexIds,
                   input |-> [layers |-> InLayers(raw), weights |-> InWeights],
                   cur  |-> mass_edits_start(InLayers(raw), InWeights, EHexIds),
                   prev |-> mass_edits_start(InLayers(raw), InWeights, EHexIds),
                   ret  |-> NoRet]
       \/ \E G \in InGraphs :
            eng = [which |-> "net", pc |-> "loop", n |-> 0, last |-> NoEdit,
                   hex_ids |-> EHexIds,
                   input |-> G,
                   cur  |-> graph_copy(G),
                   prev |-> graph_copy(G),
                   ret  |-> NoRet]
    /\ heap = Idle /\ al = Idle /\ store = Idle /\ run = Idle /\ hist = Idle

EditStepTo(r, edit) ==
    IF r.ok
    THEN eng' = [eng EXCEPT !.n = @ + 1, !.last = edit, !.prev = eng.cur,
                            !.cur = r.val]
    ELSE eng' = [eng EXCEPT !.n = @ + 1, !.last = edit, !.prev = eng.cur,
                            !.pc = "raised", !.ret = r]

MassEditStep ==
    /\ eng.which = "mass" /\ eng.pc = "loop" /\ eng.n < MaxEdits
    /\ \E edit \in MassEditInputs :
          EditStepTo(mass_edit_step(eng.cur, eng.hex_ids, edit), edit)
    /\ UNCHANGED <<heap, al, store, run, hist>>

NetEditStep ==
    /\ eng.which = "net" /\ eng.pc = "loop" /\ eng.n < MaxEdits
    /\ \E edit \in NetEditInputs :
          EditStepTo(net_edit_step(eng.cur, edit, R(CLOSE_TIME)), edit)
    /\ UNCHANGED <<heap, al, store, run, hist>>

\* the edit list is exhausted: return new_layers, new_weights / return G
EditReturn ==
    /\ eng.which \in {"mass", "net"} /\ eng.pc = "loop"
    /\ eng' = [eng EXCEPT !.pc = "returned", !.ret = Ok(eng.cur)]
    /\ UNCHANGED <<heap, al, store, run, hist>>

NextEdit == MassEditStep \/ NetEditStep \/ EditReturn

SpecEdit == InitEdit /\ [][NextEdit]_vars

(***************************************************************************)
(* Inputs of the scenario runs: base assets over two hexes and a network   *)
(* of three nodes.  The times are multiples of 16 minutes, the decay rates *)
(* 0 or ln 2 / 4 and gamma 0 or 1/2, so that every weighted time stays a   *)
(* multiple of 4 minutes.                                                  *)
(***************************************************************************)
MaxRuns == 2    \* runs of one history

RHexIds == <<"h1", "h2">>

RLayers(f1, f2) ==
    [k \in {"food_retail", "parks", "community"} |->
        IF k = "food_retail"
        THEN MassLayer("food_retail", [h \in {"h1", "h2"} |-> IF h = "h1" THEN f1 ELSE f2],
                       [source |-> PyStr("osm")])
        ELSE IF k = "parks"
        THEN MassLayer("parks", [h \in {"h1", "h2"} |-> IF h = "h1" THEN R(0) ELSE R(1)],
                       [source |-> PyStr("osm")])
        ELSE MassLayer("community", [h \in {"h1", "h2"} |-> R(0)],
                       [source |-> PyStr("osm")])]

RGraph(t) ==
    [nodes |-> {"a", "b", "c"},
     edges |->
        [x \in {<<"a", "b", "0">>, <<"a", "b", "1">>, <<"b", "a", "0">>,
                <<"a", "c", "0">>, <<"c", "b", "0">>} |->
            IF x = <<"a", "b", "0">> THEN [time_min |-> t, mode |-> PyStr("walk")]
            ELSE IF x = <<"a", "b", "1">>
            THEN [time_min |-> R(32), mode |-> PyStr("transit"), route_id |-> PyStr("7")]
            ELSE IF x = <<"b", "a", "0">> THEN [time_min |-> R(16), mode |-> PyStr("walk")]
            ELSE [time_min |-> R(16), mode |-> PyStr("bike")]]]

\* layers whose parks layer holds areas in m2 (a value above 1.5), not ratios
PLayers ==
    [RLayers(R(4), R(0)) EXCEPT !["parks"] =
        MassLayer("parks", [h \in {"h1", "h2"} |-> IF h = "h1" THEN R(2) ELSE R(1)],
                  [source |-> PyStr("osm")])]

\* the base assets of a runner (ScenarioRunner.__init__, runner.py:34-55)
BaseAssets(id) ==
    [id          |-> id,
     hex_ids     |-> IF id = "C" THEN <<"h1">> ELSE RHexIds,
     layers      |-> IF id \in {"A", "C"} THEN RLayers(R(4), R(0))
                     ELSE IF id = "P" THEN PLayers
                     ELSE RLayers(R(2), R(6)),
     weights     |-> [k \in {"food_retail", "parks"} |-> R(1)],
     G_base      |-> IF id \in {"A", "C", "P"} THEN RGraph(R(16)) ELSE RGraph(R(48)),
     node_to_hex |-> [n \in (IF id = "C" THEN {"a"} ELSE {"a", "b"}) |->
                        IF n = "a" THEN "h1" ELSE "h2"],
     hex_to_node |-> [h \in (IF id = "C" THEN {"h1"} ELSE {"h1", "h2"}) |->
                        IF h = "h1" THEN "a" ELSE "b"],
     population  |-> [h \in {"h1", "h2"} |->
                        IF id \in {"A", "C", "P"} THEN (IF h = "h1" THEN R(2) ELSE R(1))
                        ELSE (IF h = "h1" THEN R(1) ELSE R(3))],
     income      |-> [h \in {"h1", "h2"} |-> IF h = "h1" THEN R(62400) ELSE R(31200)],
     labour      |-> [h \in {"h1", "h2"} |-> IF h = "h1" THEN R(1) ELSE R(2)],
     has_area    |-> FALSE, hex_area_m2 |-> <<>>,
     has_interface |-> FALSE, urban_interface |-> <<>>]

BaseIds == {"A", "B", "C", "M", "P"}

\* the keys of the base assets: those of "M" lack labour
REQUIRED ==
    {"hex_ids", "layers", "weights", "G_base", "node_to_hex", "hex_to_node",
     "population", "income", "labour"}

base_keys(id) == IF id = "M" THEN REQUIRED \ {"labour"} ELSE REQUIRED

\* ScenarioRunner(store, base_assets) (runner.py:51-55) raises ValueError
init_raises(id) == {k \in REQUIRED : k \notin base_keys(id)} # {}

Betas0 == << <<"pci", <<1, 4>> >>, <<"market", <<1, 4>> >>, <<"labour", <<1, 4>> >> >>

\* Scenario(...) (scenario.py:94-119): the fields of the dataclass with their
\* defaults, betas given
Scenario(name) ==
    [name |-> name, description |-> "",
     mass_edits |-> <<>>, network_edits |-> <<>>,
     weights |-> <<>>, betas |-> Betas0, gamma |-> <<1, 2>>,
     active_lambda |-> <<3, 10>>, mode_cost |-> R(0),
     park_mask_enabled |-> TRUE, park_mask_threshold |-> <<9, 10>>,
     interface_lambda |-> R(0)]

\* a scenario object that also carries the attribute topo_rules (a dict)
WithRules(s, rules) ==
    [f \in DOMAIN s \cup {"topo_rules"} |-> IF f = "topo_rules" THEN rules ELSE s[f]]

Variant(name) == WithRules(Scenario(name), <<>>)

Scenarios ==
    {Scenario("plain"),
     [Scenario("plain_network") EXCEPT !.network_edits =
         <<CloseEdges(<< <<"a", "b", "0">> >>)>>],
     Variant("baseline"),
     [Variant("mass") EXCEPT !.mass_edits =
         <<RedistributeLayerToHexes("food_retail", <<"h2">>, "equal")>>],
     [Variant("network") EXCEPT !.network_edits =
         <<CloseEdges(<< <<"a", "b", "0">> >>)>>],
     [Variant("gamma") EXCEPT !.gamma = R(0)],
     [Variant("where_set") EXCEPT !.network_edits =
         <<SpeedFactorByAttribute(
             << <<"mode", Coll("set", <<PyStr("walk"), PyStr("bike")>>)>> >>, R(2))>>],
     [Variant("betas_order") EXCEPT !.betas =
         << <<"labour", <<1, 4>> >>, <<"market", <<1, 4>> >>, <<"pci", <<1, 4>> >> >>],
     [Variant("betas") EXCEPT !.betas =
         << <<"pci", R(0)>>, <<"market", <<1, 4>> >>, <<"labour", <<1, 4>> >> >>],
     [Variant("weights") EXCEPT !.weights = << <<"parks", R(3)>> >>],
     [Variant("mode_cost") EXCEPT !.mode_cost = R(2)],
     [Variant("no_mask") EXCEPT !.park_mask_enabled = FALSE],
     WithRules(Scenario("rules"), << <<"normalize", "01">> >>),
     [Variant("bad_mass") EXCEPT !.mass_edits =
         <<RedistributeLayerToHexes("cafes", <<"h1">>, "equal")>>],
     [Variant("bad_network") EXCEPT !.network_edits = <<CloseEdges(<< <<"a">> >>)>>],
     [Variant("close_all") EXCEPT !.network_edits =
         <<CloseEdges(<< <<"a", "b">>, <<"a", "c">> >>)>>],
     [Variant("close_then_speed") EXCEPT !.network_edits =
         <<CloseEdges(<< <<"a", "b", "1">> >>),
           SpeedFactorByAttribute(<< <<"mode", Scalar(PyStr("transit"))>> >>,
                                  <<1, 2>>)>>],
     [Variant("bad_method") EXCEPT !.mass_edits =
         <<RedistributeLayerToHexes("food_retail", <<"h2">>, "nearest")>>],
     [Variant("quiet_method") EXCEPT !.mass_edits =
         <<RedistributeLayerToHexes("community", <<"h2">>, "nearest")>>]}

\* a scenario for the base whose parks layer holds areas: its weights give it
\* a mass key of its own
ParksArea == [Variant("parks_area") EXCEPT !.weights = << <<"parks", R(2)>> >>]

RunInput(base, scenario, max_time, recompute, seed) ==
    [base |-> base, scenario |-> scenario, max_time |-> max_time,
     recompute |-> recompute, seed |-> seed]

\* the calls runner.run(scenario, max_time, recompute) of the histories: each
\* scenario on the runner of base A, and the baseline with another runner,
\* cutoff, recompute set or process
RunInputs ==
    {RunInput("A", s, R(60), {}, 1) : s \in Scenarios}
    \cup {RunInput("B", Variant("baseline"), R(60), {}, 1)}
    \cup {RunInput("M", Variant("baseline"), R(60), {}, 1)}
    \cup {RunInput("C", Variant("baseline"), R(60), {}, 1)}
    \cup {RunInput("P", ParksArea, R(60), {}, 1)}
    \cup {RunInput("A", Variant("baseline"), R(20), {}, 1)}
    \cup {RunInput("A", Variant("baseline"), R(60), rc, 1) :
            rc \in {{"mass"}, {"graph"}, {"travel_times"}, {"pci", "bci"}}}
    \cup {RunInput("A", s, R(60), {}, 2) : s \in {x \in Scenarios : x.name = "where_set"}}

(***************************************************************************)
(* Spec: a history of calls ScenarioRunner.run (runner.py:84-228) by       *)
(* runners that share one store, one call at a time, one action per stage  *)
(* of the call.  run holds the locals of the call in progress, hist the    *)
(* calls that ended; a call that raises ends without a result.             *)
(***************************************************************************)
RunIdle == [pc |-> "idle"]
NoKey   == <<>>

Event(stage, op, name) == [stage |-> stage, op |-> op, name |-> name]

base_of(r) == BaseAssets(r.inp.base)

\* Series.reindex(hex_ids): NaN for a hex the series does not hold
reindex(s, hex_ids) ==
    [h \in Range(hex_ids) |-> IF h \in DOMAIN s THEN s[h] ELSE NaN]

\* Series.index: the labels of a series, in an order that no operator
\* depends on
index_of(s) == canon(DOMAIN s)

\* the call in progress ends: it returned ("returned") or raised ("raised")
Ended(r, outcome, err) ==
    [inp |-> r.inp, outcome |-> outcome, err |-> err, at |-> r.pc,
     keys |-> r.keys, events |-> r.events, loaded |-> r.loaded,
     searches |-> r.searches, out |-> r.out]

NoKeys ==
    [mass |-> NoKey, layers |-> NoKey, topo |-> NoKey, bci_masses |-> NoKey,
     graph |-> NoKey, travel_times |-> NoKey, pci |-> NoKey, bci |-> NoKey]

NoOut ==
    [layers |-> Nil, weights |-> Nil, topo_pci |-> Nil, market_mass |-> Nil,
     labour_mass |-> Nil, G_s |-> Nil, travel_times |-> Nil, pci |-> Nil,
     bci_out |-> Nil]

Started(inp) ==
    [pc |-> "start", inp |-> inp, keys |-> NoKeys, events |-> <<>>,
     loaded |-> {}, searches |-> 0, out |-> NoOut]

InitRun ==
    /\ store = <<>> /\ run = RunIdle /\ hist = <<>>
    /\ eng = Idle /\ heap = Idle /\ al = Idle

\* a runner is built on base assets (lines 51-55) and run is called: lines
\* 94-101 derive the mass key; scenario.topo_rules raises AttributeError for an
\* object without that attribute
RunStart ==
    /\ run.pc = "idle" /\ Len(hist) < MaxRuns
    /\ \E inp \in RunInputs :
         IF init_raises(inp.base)
         THEN /\ run' = RunIdle
              /\ hist' = Append(hist, Ended([Started(inp) EXCEPT !.pc = "init"],
                                            "raised", "ValueError"))
         ELSE IF "topo_rules" \in DOMAIN inp.scenario
         THEN /\ run' = [Started(inp) EXCEPT !.pc = "mass",
                            !.keys.mass = mass_key_of(inp.scenario)]
              /\ hist' = hist
         ELSE /\ run' = RunIdle
              /\ hist' = Append(hist, Ended(Started(inp), "raised", "AttributeError"))
    /\ UNCHANGED <<store, eng, heap, al>>

\* lines 103-115: layers and weights
StageMassLayers ==
    /\ run.pc = "mass"
    /\ LET base   == base_of(run)
           sc     == run.inp.scenario
           key    == layers_key_of(run.keys.mass)
           forced == "mass" \in run.inp.recompute
           ll     == IF forced THEN [some |-> FALSE, obj |-> Nil]
                     ELSE store_load(store, "layers", key)
           lw     == IF forced THEN [some |-> FALSE, obj |-> Nil]
                     ELSE store_load(store, "weights", key)
           hits   == (IF ll.some THEN <<Event("mass", "load", "layers")>> ELSE <<>>)
                     \o (IF lw.some THEN <<Event("mass", "load", "weights")>> ELSE <<>>)
           res    == apply_mass_edits(base.layers,
                         dict_merge(base.weights, dict_fn(sc.weights)),
                         base.hex_ids, sc.mass_edits)
       IN  IF ll.some /\ lw.some
           THEN /\ run' = [run EXCEPT !.pc = "topo", !.keys.layers = key,
                              !.events = @ \o hits,
                              !.loaded = @ \cup {"layers", "weights"},
                              !.out.layers = ll.obj, !.out.weights = lw.obj]
                /\ UNCHANGED <<store, hist>>
           ELSE IF res.ok
           THEN /\ run' = [run EXCEPT !.pc = "topo", !.keys.layers = key,
                              !.events = @ \o hits \o
                                  <<Event("mass", "compute", "layers"),
                                    Event("mass", "compute", "weights"),
                                    Event("mass", "save", "layers"),
                                    Event("mass", "save", "weights")>>,
                              !.out.layers = res.val.layers,
                              !.out.weights = res.val.weights]
                /\ store' = store_save(store_save(store, "layers", key, res.val.layers),
                                       "weights", key, res.val.weights)
                /\ hist' = hist
           ELSE /\ run' = RunIdle
                /\ hist' = Append(hist,
                       Ended([run EXCEPT !.keys.layers = key, !.events = @ \o hits],
                             "raised", res.err))
                /\ store' = aborted(aborted(store, "layers", key), "weights", key)
    /\ UNCHANGED <<eng, heap, al>>

\* lines 117-127: the composite topography
StageTopography ==
    /\ run.pc = "topo"
    /\ LET base   == base_of(run)
           sc     == run.inp.scenario
           key    == topo_key_of(run.keys.mass)
           ld     == IF "mass" \in run.inp.recompute THEN [some |-> FALSE, obj |-> Nil]
                     ELSE store_load(store, "topo_pci", key)
           topo   == build_composite_topography(run.out.layers, run.out.weights,
                         base.hex_ids, dict_fn(sc.topo_rules))
       IN  IF ld.some
           THEN /\ run' = [run EXCEPT !.pc = "bci_masses", !.keys.topo = key,
                              !.events = Append(@, Event("mass", "load", "topo_pci")),
                              !.loaded = @ \cup {"topo_pci"},
                              !.out.topo_pci = ld.obj]
                /\ store' = store
           ELSE /\ run' = [run EXCEPT !.pc = "bci_masses", !.keys.topo = key,
                              !.events = @ \o <<Event("mass", "compute", "topo_pci"),
                                                Event("mass", "save", "topo_pci")>>,
                              !.out.topo_pci = topo]
                /\ store' = store_save(store, "topo_pci", key, topo)
    /\ UNCHANGED <<hist, eng, heap, al>>

\* lines 130-141: the BCI masses, loaded whenever the store holds them
StageBciMasses ==
    /\ run.pc = "bci_masses"
    /\ LET base == base_of(run)
           pop  == reindex(base.population, base.hex_ids)
           inc  == reindex(base.income, base.hex_ids)
           lab  == reindex(base.labour, base.hex_ids)
           key  == bci_mass_key_of
           ld   == store_load(store, "bci_masses", key)
           bci_masses == build_bci_masses(pop, inc, lab, base.hex_ids)
       IN  IF ld.some
           THEN /\ run' = [run EXCEPT !.pc = "graph", !.keys.bci_masses = key,
                              !.events = Append(@, Event("mass", "load", "bci_masses")),
                              !.loaded = @ \cup {"bci_masses"},
                              !.out.market_mass = ld.obj[1],
                              !.out.labour_mass = ld.obj[2]]
                /\ store' = store
           ELSE /\ run' = [run EXCEPT !.pc = "graph", !.keys.bci_masses = key,
                              !.events = @ \o <<Event("mass", "compute", "bci_masses"),
                                                Event("mass", "save", "bci_masses")>>,
                              !.out.market_mass = bci_masses[1],
                              !.out.labour_mass = bci_masses[2]]
                /\ store' = store_save(store, "bci_masses", key, bci_masses)
    /\ UNCHANGED <<hist, eng, heap, al>>

\* lines 144-153: the scenario graph
StageGraph ==
    /\ run.pc = "graph"
    /\ LET base == base_of(run)
           sc   == run.inp.scenario
           key  == graph_key_of(sc, run.keys.topo, run.inp.seed)
           ld   == IF "graph" \in run.inp.recompute THEN [some |-> FALSE, obj |-> Nil]
                   ELSE store_load(store, "G_s", key)
           res  == build_scenario_graph(base.G_base, run.out.topo_pci,
                       index_of(run.out.topo_pci), base.node_to_hex, sc,
                       R(CLOSE_TIME))
       IN  IF ld.some
           THEN /\ run' = [run EXCEPT !.pc = "travel_times", !.keys.graph = key,
                              !.events = Append(@, Event("graph", "load", "G_s")),
                              !.loaded = @ \cup {"G_s"}, !.out.G_s = ld.obj]
                /\ UNCHANGED <<store, hist>>
           ELSE IF res.ok
           THEN /\ run' = [run EXCEPT !.pc = "travel_times", !.keys.graph = key,
                              !.events = @ \o <<Event("graph", "compute", "G_s"),
                                                Event("graph", "save", "G_s")>>,
                              !.out.G_s = res.val]
                /\ store' = store_save(store, "G_s", key, res.val)
                /\ hist' = hist
           ELSE /\ run' = RunIdle
                /\ hist' = Append(hist,
                       Ended([run EXCEPT !.keys.graph = key], "raised", res.err))
                /\ store' = aborted(store, "G_s", key)
    /\ UNCHANGED <<eng, heap, al>>

\* lines 156-165: the travel times, one search per distinct node when computed
StageTravelTimes ==
    /\ run.pc = "travel_times"
    /\ LET base == base_of(run)
           key  == travel_times_key_of(run.keys.graph, run.inp.max_time)
           ld   == IF "travel_times" \in run.inp.recompute
                   THEN [some |-> FALSE, obj |-> Nil]
                   ELSE store_load(store, "travel_times", key)
           tt   == compute_hex_travel_times(run.out.G_s, base.hex_to_node,
                                            run.inp.max_time)
       IN  IF ld.some
           THEN /\ run' = [run EXCEPT !.pc = "pci", !.keys.travel_times = key,
                              !.events = Append(@,
                                  Event("travel_times", "load", "travel_times")),
                              !.loaded = @ \cup {"travel_times"},
                              !.out.travel_times = ld.obj]
                /\ store' = store
           ELSE /\ run' = [run EXCEPT !.pc = "pci", !.keys.travel_times = key,
                              !.events = @ \o
                                  <<Event("travel_times", "compute", "travel_times"),
                                    Event("travel_times", "save", "travel_times")>>,
                              !.searches = @ + searches_of(base.hex_to_node),
                              !.out.travel_times = tt]
                /\ store' = store_save(store, "travel_times", key, tt)
    /\ UNCHANGED <<hist, eng, heap, al>>

\* lines 168-191: PCI
StagePci ==
    /\ run.pc = "pci"
    /\ LET base == base_of(run)
           sc   == run.inp.scenario
           inc  == reindex(base.income, base.hex_ids)
           key  == pci_key_of(sc, run.keys.travel_times, run.keys.topo)
           ld   == IF "pci" \in run.inp.recompute THEN [some |-> FALSE, obj |-> Nil]
                   ELSE store_load(store, "pci", key)
           res  == compute_pci(run.out.travel_times, run.out.topo_pci,
                       index_of(run.out.topo_pci), run.out.layers, dict_fn(sc.betas), inc, sc.mode_cost,
                       sc.active_lambda, sc.park_mask_enabled,
                       sc.park_mask_threshold, base.has_area, base.hex_area_m2)
       IN  IF ld.some
           THEN /\ run' = [run EXCEPT !.pc = "bci", !.keys.pci = key,
                              !.events = Append(@, Event("pci", "load", "pci")),
                              !.loaded = @ \cup {"pci"}, !.out.pci = ld.obj]
                /\ UNCHANGED <<store, hist>>
           ELSE IF res.ok
           THEN /\ run' = [run EXCEPT !.pc = "bci", !.keys.pci = key,
                              !.events = @ \o <<Event("pci", "compute", "pci"),
                                                Event("pci", "save", "pci")>>,
                              !.out.pci = res.val]
                /\ store' = store_save(store, "pci", key, res.val)
                /\ hist' = hist
           ELSE /\ run' = RunIdle
                /\ hist' = Append(hist,
                       Ended([run EXCEPT !.keys.pci = key], "raised", res.err))
                /\ store' = aborted(store, "pci", key)
    /\ UNCHANGED <<eng, heap, al>>

\* lines 194-213: BCI
StageBci ==
    /\ run.pc = "bci"
    /\ LET base == base_of(run)
           sc   == run.inp.scenario
           pop  == reindex(base.population, base.hex_ids)
           inc  == reindex(base.income, base.hex_ids)
           lab  == reindex(base.labour, base.hex_ids)
           key  == bci_key_of(sc, run.keys.travel_times)
           ld   == IF "bci" \in run.inp.recompute THEN [some |-> FALSE, obj |-> Nil]
                   ELSE store_load(store, "bci_out", key)
           bci_out == compute_bci(run.out.travel_times, pop, inc, lab, base.hex_ids,
                          dict_fn(sc.betas), base.has_interface,
                          base.urban_interface, sc.interface_lambda)
       IN  IF ld.some
           THEN /\ run' = [run EXCEPT !.pc = "return", !.keys.bci = key,
                              !.events = Append(@, Event("bci", "load", "bci_out")),
                              !.loaded = @ \cup {"bci_out"}, !.out.bci_out = ld.obj]
                /\ store' = store
           ELSE /\ run' = [run EXCEPT !.pc = "return", !.keys.bci = key,
                              !.events = @ \o <<Event("bci", "compute", "bci_out"),
                                                Event("bci", "save", "bci_out")>>,
                              !.out.bci_out = bci_out]
                /\ store' = store_save(store, "bci_out", key, bci_out)
    /\ UNCHANGED <<hist, eng, heap, al>>

\* lines 215-228: the call returns the result mapping
RunReturn ==
    /\ run.pc = "return"
    /\ run' = RunIdle
    /\ hist' = Append(hist, Ended(run, "returned", ""))
    /\ UNCHANGED <<store, eng, heap, al>>

Next ==
    \/ RunStart \/ StageMassLayers \/ StageTopography \/ StageBciMasses
    \/ StageGraph \/ StageTravelTimes \/ StagePci \/ StageBci \/ RunReturn

Spec == InitRun /\ [][Next]_vars

(***************************************************************************)
(* SpecAlias: the objects of an engine call.  heap maps an object to its   *)
(* cell; an object is named <<space, kind, a, b, c, n>>, with the space    *)
(* "in" for the caller's objects, "new" for the objects the engine makes   *)
(* and "obj" for the list objects that metadata and edge attributes hold   *)
(* (the values PyList(s)).  A dict, a MassLayer and a graph hold           *)
(* references; an assignment through a reference changes the cell.         *)
(***************************************************************************)
MaxChanges == 1    \* changes the caller makes to a result

Ref(space, kind, a, b, c, n) == <<space, kind, a, b, c, n>>

ListRef(s) == Ref("obj", "list", s, "", "", 0)

\* MassLayer(name=, raw=, meta=) with a new raw series and a new meta dict
alloc_layer(v, key, space, tag, n) ==
    (Ref(space, "MassLayer", key, tag, "", n) :>
        [ty |-> "MassLayer", name |-> v.name,
         raw |-> Ref(space, "Series", key, tag, "", n),
         meta |-> Ref(space, "meta", key, tag, "", n)])
    @@ (Ref(space, "Series", key, tag, "", n) :> [ty |-> "Series", data |-> v.raw])
    @@ (Ref(space, "meta", key, tag, "", n) :> [ty |-> "dict", items |-> v.meta])

RECURSIVE alloc_layers(_, _, _, _, _)
alloc_layers(vals, keys, space, tag, n) ==
    IF keys = {} THEN <<>>
    ELSE LET k == CHOOSE x \in keys : TRUE
         IN  alloc_layer(vals[k], k, space, tag, n)
             @@ alloc_layers(vals, keys \ {k}, space, tag, n)

\* the value of the MassLayer object l: its name, the data of its raw series
\* and the items of its meta dict
layer_val(h, l) == MassLayer(h[l].name, h[h[l].raw].data, h[h[l].meta].items)

layers_val(h, d) == [k \in DOMAIN h[d].items |-> layer_val(h, h[d].items[k])]

\* the value of the graph object g: its nodes and the items of the attribute
\* dict of each edge
graph_val(h, g) ==
    [nodes |-> h[g].nodes,
     edges |-> [x \in DOMAIN h[g].edges |-> h[h[g].edges[x]].items]]

\* dict(d): a new dict with the items of d
h_dict_copy(h, d, new) == [heap |-> h @@ (new :> [ty |-> "dict", items |-> h[d].items]),
                           ref |-> new]

\* apply_mass_edits.py:67-68: new_layers holds, for each layer, the reindexed
\* copy of its copy; new_weights is dict(weights)
h_mass_start(h, layers, weights, hex_ids) ==
    LET L  == h[layers].items
        h1 == h @@ alloc_layers([k \in DOMAIN L |-> layer_copy(layer_val(h, L[k]))],
                                DOMAIN L, "new", "copy", 0)
        h2 == h1 @@ alloc_layers(
                  [k \in DOMAIN L |->
                      reindex_to_hexes(
                          layer_val(h1, Ref("new", "MassLayer", k, "copy", "", 0)),
                          hex_ids)],
                  DOMAIN L, "new", "reindex", 0)
        nl == Ref("new", "layers", "", "", "", 0)
        h3 == h2 @@ (nl :> [ty |-> "dict",
                            items |-> [k \in DOMAIN L |->
                                Ref("new", "MassLayer", k, "reindex", "", 0)]])
        cw == h_dict_copy(h3, weights, Ref("new", "weights", "", "", "", 0))
    IN  [heap |-> cw.heap, new_layers |-> nl, new_weights |-> cw.ref]

\* one iteration of the loop of apply_mass_edits.py:70-90 on the objects
\* new_layers and new_weights; n numbers the iteration
h_mass_edit_step(h, new_layers, new_weights, hex_ids, edit, n) ==
    LET st == [layers |-> layers_val(h, new_layers), weights |-> h[new_weights].items]
        r  == mass_edit_step(st, hex_ids, edit)
    IN  IF ~r.ok THEN [ok |-> FALSE, err |-> r.err, heap |-> h]
        ELSE IF edit.kind = "redistribute_layer_to_hexes"
        THEN \* line 82: new_layers[edit.layer] = MassLayer(...)
             [ok |-> TRUE, err |-> "",
              heap |-> [(h @@ alloc_layer(r.val.layers[edit.layer], edit.layer,
                                           "new", "edit", n))
                           EXCEPT ![new_layers].items[edit.layer] =
                               Ref("new", "MassLayer", edit.layer, "edit", "", n)]]
        ELSE \* line 87: new_weights[edit.layer] = 0.0
             [ok |-> TRUE, err |-> "",
              heap |-> [h EXCEPT ![new_weights].items = r.val.weights]]

\* mutant: G = G_base, no copy
h_graph_alias(h, g) == [heap |-> h, ref |-> g]

\* G_base.copy() (apply_network_edits.py:42): a new graph whose edges hold new
\* attribute dicts with the items of the old ones
h_graph_copy(h, g) ==
    LET E  == h[g].edges
        ng == Ref("new", "graph", "", "", "", 0)
    IN  [heap |-> h @@ [id \in {Ref("new", "attr", x[1], x[2], x[3], 0) : x \in DOMAIN E}
                            |-> [ty |-> "dict",
                                 items |-> h[E[<<id[3], id[4], id[5]>>]].items]]
                      @@ (ng :> [ty |-> "graph", nodes |-> h[g].nodes,
                                 edges |-> [x \in DOMAIN E |->
                                     Ref("new", "attr", x[1], x[2], x[3], 0)]]),
         ref |-> ng]

\* the attribute dicts of the edges of g take the items they have in Gv
write_attrs(h, g, Gv) ==
    [id \in DOMAIN h |->
        IF \E x \in DOMAIN h[g].edges : h[g].edges[x] = id
        THEN [h[id] EXCEPT !.items =
                 Gv.edges[CHOOSE x \in DOMAIN h[g].edges : h[g].edges[x] = id]]
        ELSE h[id]]

\* lines 46-60 on the graph object g: the tuples before a tuple of a wrong
\* arity have closed their edges when the error is raised
RECURSIVE h_close_edges(_, _, _, _)
h_close_edges(h, g, edges, close_time) ==
    IF edges = <<>> THEN [ok |-> TRUE, err |-> "", heap |-> h]
    ELSE LET r == close_one(graph_val(h, g), Head(edges), close_time)
         IN  IF r.ok
             THEN h_close_edges(write_attrs(h, g, r.val), g, Tail(edges), close_time)
             ELSE [ok |-> FALSE, err |-> r.err, heap |-> h]

\* one iteration of the loop of apply_network_edits.py:44-79 on the graph g
h_net_edit_step(h, g, edit, close_time) ==
    IF edit.kind = "close_edges" THEN h_close_edges(h, g, edit.edges, close_time)
    ELSE LET r == net_edit_step(graph_val(h, g), edit, close_time)
         IN  IF r.ok THEN [ok |-> TRUE, err |-> "", heap |-> write_attrs(h, g, r.val)]
             ELSE [ok |-> FALSE, err |-> r.err, heap |-> h]

(***************************************************************************)
(* SpecAlias: a caller holds layers, weights and a base network, calls an  *)
(* engine on them and then changes the result.  al holds the references of *)
(* the call and what the caller's objects held before it.                  *)
(***************************************************************************)
InLayersRef  == Ref("in", "layers", "", "", "", 0)
InWeightsRef == Ref("in", "weights", "", "", "", 0)
InGraphRef   == Ref("in", "graph", "", "", "", 0)

\* the list objects named by the values of a mapping (time_min is a number)
lists_of(d) ==
    {ListRef(d[a][2]) : a \in {b \in DOMAIN d \ {"time_min"} : d[b][1] = "list"}}

ListCells(refs) == [id \in refs |-> [ty |-> "list", items |-> <<"x">>]]

\* the caller's objects for the layers L and the weights W
InHeapMass(L, W) ==
    alloc_layers(L, DOMAIN L, "in", "", 0)
    @@ (InLayersRef :> [ty |-> "dict",
                        items |-> [k \in DOMAIN L |->
                            Ref("in", "MassLayer", k, "", "", 0)]])
    @@ (InWeightsRef :> [ty |-> "dict", items |-> W])
    @@ ListCells(UNION {lists_of(L[k].meta) : k \in DOMAIN L})

\* the caller's objects for the base network G
InHeapNet(G) ==
    [id \in {Ref("in", "attr", x[1], x[2], x[3], 0) : x \in DOMAIN G.edges} |->
        [ty |-> "dict", items |-> G.edges[<<id[3], id[4], id[5]>>]]]
    @@ (InGraphRef :> [ty |-> "graph", nodes |-> G.nodes,
                       edges |-> [x \in DOMAIN G.edges |->
                           Ref("in", "attr", x[1], x[2], x[3], 0)]])
    @@ ListCells(UNION {lists_of(G.edges[x]) : x \in DOMAIN G.edges})

\* the dicts, layers, series and graphs reached from the layers dict d and the
\* weights dict w, or from the graph g
mass_containers(h, d, w) ==
    {d, w} \cup UNION {{l, h[l].raw, h[l].meta} : l \in Range(h[d].items)}

net_containers(h, g) == {g} \cup Range(h[g].edges)

\* what the caller's containers hold, values named by reference
InputShallow(h, which) ==
    IF which = "mass"
    THEN [refs |-> h[InLayersRef].items, layers |-> layers_val(h, InLayersRef),
          weights |-> h[InWeightsRef].items]
    ELSE [refs |-> h[InGraphRef].edges, layers |-> graph_val(h, InGraphRef),
          weights |-> <<>>]

\* ... and the items of the list objects they name
InputDeep(h, which) ==
    [shallow |-> InputShallow(h, which),
     lists   |-> [id \in {x \in DOMAIN h : x[2] = "list"} |-> h[id].items]]

AliasInputs == {InLayers(raw) : raw \in {[h \in {"h1", "h2", "h3"} |-> R(4)],
                                         [h \in {"h1", "hx"} |-> R(4)]}}

InitAlias ==
    /\ \/ \E L \in AliasInputs :
            /\ heap = InHeapMass(L, InWeights)
            /\ al = [which |-> "mass", pc |-> "ready", n |-> 0, changes |-> 0,
                     made |-> {}, hex_ids |-> EHexIds,
                     result |-> <<InLayersRef, InWeightsRef>>,
                     snap |-> InputDeep(InHeapMass(L, InWeights), "mass")]
       \/ \E G \in InGraphs :
            /\ heap = InHeapNet(G)
            /\ al = [which |-> "net", pc |-> "ready", n |-> 0, changes |-> 0,
                     made |-> {}, hex_ids |-> EHexIds,
                     result |-> <<InGraphRef, InGraphRef>>,
                     snap |-> InputDeep(InHeapNet(G), "net")]
    /\ eng = Idle /\ store = Idle /\ run = Idle /\ hist = Idle

\* apply_mass_edits.py:67-68 / apply_network_edits.py:42
AliasCall ==
    /\ al.which \in {"mass", "net"} /\ al.pc = "ready"
    /\ IF al.which = "mass"
       THEN LET s == h_mass_start(heap, InLayersRef, InWeightsRef, al.hex_ids)
            IN  /\ heap' = s.heap
                /\ al' = [al EXCEPT !.pc = "loop",
                                    !.result = <<s.new_layers, s.new_weights>>]
       ELSE LET s == h_graph_copy(heap, InGraphRef)
            IN  /\ heap' = s.heap
                /\ al' = [al EXCEPT !.pc = "loop", !.result = <<s.ref, s.ref>>]
    /\ UNCHANGED <<eng, store, run, hist>>

AliasStepTo(r) ==
    /\ heap' = r.heap
    /\ al' = [al EXCEPT !.n = @ + 1, !.pc = IF r.ok THEN "loop" ELSE "raised"]

AliasMassEdit ==
    /\ al.which = "mass" /\ al.pc = "loop" /\ al.n < MaxEdits
    /\ \E edit \in MassEditInputs :
          AliasStepTo(h_mass_edit_step(heap, al.result[1], al.result[2],
                                       al.hex_ids, edit, al.n + 1))
    /\ UNCHANGED <<eng, store, run, hist>>

AliasNetEdit ==
    /\ al.which = "net" /\ al.pc = "loop" /\ al.n < MaxEdits
    /\ \E edit \in NetEditInputs :
          AliasStepTo(h_net_edit_step(heap, al.result[1], edit, R(CLOSE_TIME)))
    /\ UNCHANGED <<eng, store, run, hist>>

\* return new_layers, new_weights / return G
AliasReturn ==
    /\ al.which \in {"mass", "net"} /\ al.pc = "loop"
    /\ al' = [al EXCEPT !.pc = "returned"]
    /\ UNCHANGED <<eng, heap, store, run, hist>>

\* the changes a caller can make to a returned result: assign an entry of a
\* raw series, a weight, a metadata entry or an edge's time_min, or append to a
\* list that a metadata entry or an edge attribute names
Changes == {"raw", "weight", "meta_set", "meta_append", "time_min", "attr_append"}

changed(h, which, result, c) ==
    LET l == h[result[1]].items["food_retail"]
        e == h[result[1]].edges[<<"a", "b", "0">>]
    IN  CASE c = "raw"  -> [h EXCEPT ![h[l].raw].data["h1"] = R(9)]
        []   c = "weight" -> [h EXCEPT ![result[2]].items["parks"] = R(9)]
        []   c = "meta_set" -> [h EXCEPT ![h[l].meta].items["source"] = PyStr("edited")]
        []   c = "meta_append" ->
                 [h EXCEPT ![ListRef(h[h[l].meta].items["source"][2])].items =
                               Append(@, "y")]
        []   c = "time_min" -> [h EXCEPT ![e].items["time_min"] = R(7)]
        []   c = "attr_append" ->
                 [h EXCEPT ![ListRef(h[e].items["name"][2])].items = Append(@, "y")]

can_change(h, which, result, c) ==
    CASE c \in {"raw", "weight", "meta_set"} -> which = "mass"
    []   c = "meta_append" ->
             /\ which = "mass"
             /\ h[h[h[result[1]].items["food_retail"]].meta].items["source"][1] = "list"
    []   c \in {"time_min", "attr_append"} -> which = "net"

ChangeResult ==
    /\ al.which \in {"mass", "net"} /\ al.pc \in {"returned", "changed"}
    /\ al.changes < MaxChanges
    /\ \E c \in Changes :
          /\ can_change(heap, al.which, al.result, c)
          /\ heap' = changed(heap, al.which, al.result, c)
          /\ al' = [al EXCEPT !.pc = "changed", !.changes = @ + 1,
                                    !.made = @ \cup {c}]
    /\ UNCHANGED <<eng, store, run, hist>>

NextAlias == AliasCall \/ AliasMassEdit \/ AliasNetEdit \/ AliasReturn \/ ChangeResult

SpecAlias == InitAlias /\ [][NextAlias]_vars

(***************************************************************************)
(* Claims on the scenario runner (Spec)                                    *)
(***************************************************************************)
\* what computing each stage from the scenario and the base assets of a call
\* produces (Ok of the artifact, or the error)
FreshMass(inp) ==
    apply_mass_edits(BaseAssets(inp.base).layers,
        dict_merge(BaseAssets(inp.base).weights, dict_fn(inp.scenario.weights)),
        BaseAssets(inp.base).hex_ids, inp.scenario.mass_edits)

FreshTopo(inp) ==
    IF ~FreshMass(inp).ok THEN FreshMass(inp)
    ELSE Ok(build_composite_topography(FreshMass(inp).val.layers,
                FreshMass(inp).val.weights, BaseAssets(inp.base).hex_ids,
                dict_fn(inp.scenario.topo_rules)))

FreshBciMasses(inp) ==
    LET base == BaseAssets(inp.base)
    IN  build_bci_masses(reindex(base.population, base.hex_ids),
                         reindex(base.income, base.hex_ids),
                         reindex(base.labour, base.hex_ids), base.hex_ids)

FreshGraph(inp) ==
    IF ~FreshTopo(inp).ok THEN FreshTopo(inp)
    ELSE build_scenario_graph(BaseAssets(inp.base).G_base, FreshTopo(inp).val,
             BaseAssets(inp.base).hex_ids, BaseAssets(inp.base).node_to_hex,
             inp.scenario, R(CLOSE_TIME))

FreshTravelTimes(inp) ==
    IF ~FreshGraph(inp).ok THEN FreshGraph(inp)
    ELSE Ok(compute_hex_travel_times(FreshGraph(inp).val,
                BaseAssets(inp.base).hex_to_node, inp.max_time))

FreshPci(inp) ==
    IF ~FreshTravelTimes(inp).ok THEN FreshTravelTimes(inp)
    ELSE LET base == BaseAssets(inp.base)
             sc   == inp.scenario
         IN  compute_pci(FreshTravelTimes(inp).val, FreshTopo(inp).val, base.hex_ids,
                 FreshMass(inp).val.layers, dict_fn(sc.betas),
                 reindex(base.income, base.hex_ids), sc.mode_cost, sc.active_lambda,
                 sc.park_mask_enabled, sc.park_mask_threshold,
                 base.has_area, base.hex_area_m2)

FreshBci(inp) ==
    IF ~FreshTravelTimes(inp).ok THEN FreshTravelTimes(inp)
    ELSE LET base == BaseAssets(inp.base)
             sc   == inp.scenario
         IN  Ok(compute_bci(FreshTravelTimes(inp).val,
                    reindex(base.population, base.hex_ids),
                    reindex(base.income, base.hex_ids),
                    reindex(base.labour, base.hex_ids), base.hex_ids,
                    dict_fn(sc.betas), base.has_interface, base.urban_interface,
                    sc.interface_lambda))

\* the calls of the history, the call in progress last
Calls == IF run.pc = "idle" THEN hist ELSE Append(hist, Ended(run, "running", ""))

Returned(c) == c.outcome = "returned"

\* two scenario objects differ in the fields F at most (their names and
\* descriptions aside) and do differ in one of them
OnlyDiffer(s1, s2, F) ==
    /\ DOMAIN s1 = DOMAIN s2
    /\ \A f \in DOMAIN s1 \ (F \cup {"name", "description"}) : s1[f] = s2[f]
    /\ \E f \in F : s1[f] # s2[f]

\* call j follows call i with the same runner, cutoff and process, nothing
\* forced, and both have ended
Follows(c, i, j) ==
    /\ i < j
    /\ c[j].outcome # "running"
    /\ c[i].inp.base = c[j].inp.base /\ c[i].inp.max_time = c[j].inp.max_time
    /\ c[i].inp.seed = c[j].inp.seed
    /\ c[j].inp.recompute = {}

Computed(c, name) == \E k \in DOMAIN c.events : c.events[k] = Event(c.events[k].stage, "compute", name)

\* C1: stage independence.  When a run follows the run of a scenario that
\* differs from its own only in mass_edits, both derive the same graph key
\* and the same travel-time key, the second run loads the travel-time table
\* (the same table) without any shortest-path search, and the mass and PCI
\* keys of the two runs differ.
C1_StageIndependence ==
    \A i, j \in DOMAIN hist :
        (/\ Follows(hist, i, j) /\ Returned(hist[i]) /\ Returned(hist[j])
         /\ OnlyDiffer(hist[i].inp.scenario, hist[j].inp.scenario, {"mass_edits"}))
        => /\ hist[i].keys.graph = hist[j].keys.graph
           /\ hist[i].keys.travel_times = hist[j].keys.travel_times
           /\ "travel_times" \in hist[j].loaded
           /\ hist[j].searches = 0
           /\ hist[i].out.travel_times = hist[j].out.travel_times
           /\ hist[i].keys.mass # hist[j].keys.mass
           /\ hist[i].keys.pci # hist[j].keys.pci

AllArtifacts ==
    {"layers", "weights", "topo_pci", "bci_masses", "G_s", "travel_times",
     "pci", "bci_out"}

SameCall(a, b) == a.inp = b.inp

\* the edits of the scenario are edits that the two engines accept
ValidEdits(inp) ==
    /\ FreshMass(inp).ok
    /\ apply_network_edits(BaseAssets(inp.base).G_base, inp.scenario.network_edits,
                           R(CLOSE_TIME)).ok

\* C2: cache correctness.  Of two runs of the same scenario with the same
\* max_time on a store that was empty before the first, the second returns
\* the outputs of the first, loads every stage and performs no search.
C2_CacheCorrectness ==
    (Len(hist) >= 2 /\ SameCall(hist[1], hist[2]) /\ hist[1].inp.recompute = {}
        /\ ValidEdits(hist[1].inp))
    => /\ Returned(hist[1]) /\ Returned(hist[2])
       /\ hist[2].out = hist[1].out
       /\ hist[2].loaded = AllArtifacts
       /\ hist[2].searches = 0

\* what does hold: the same, when the first run returns
C2_WhenRunsReturn ==
    (Len(hist) >= 2 /\ SameCall(hist[1], hist[2]) /\ hist[1].inp.recompute = {}
        /\ Returned(hist[1]))
    => /\ Returned(hist[2])
       /\ hist[2].out = hist[1].out
       /\ hist[2].loaded = AllArtifacts
       /\ hist[2].searches = 0

\* every artifact that call c loaded equals the freshly computed one
LoadedAreFresh(c) ==
    /\ "layers" \in c.loaded =>
          /\ FreshMass(c.inp).ok
          /\ c.out.layers = FreshMass(c.inp).val.layers
          /\ c.out.weights = FreshMass(c.inp).val.weights
    /\ "topo_pci" \in c.loaded => Ok(c.out.topo_pci) = FreshTopo(c.inp)
    /\ "bci_masses" \in c.loaded =>
          <<c.out.market_mass, c.out.labour_mass>> = FreshBciMasses(c.inp)
    /\ "G_s" \in c.loaded => Ok(c.out.G_s) = FreshGraph(c.inp)
    /\ "travel_times" \in c.loaded => Ok(c.out.travel_times) = FreshTravelTimes(c.inp)
    /\ "pci" \in c.loaded => Ok(c.out.pci) = FreshPci(c.inp)
    /\ "bci_out" \in c.loaded => Ok(c.out.bci_out) = FreshBci(c.inp)

\* C3: cache soundness over histories.  In every history of runs on one store
\* (any scenarios, cutoffs and recompute sets, runners on different base
\* assets included) an artifact that a run loads equals the artifact that
\* computing the stage from the run's scenario and base assets produces.
C3_CacheSoundness ==
    run.pc # "idle" => LoadedAreFresh(run)

\* what does hold: the same, as long as every runner of the history was built
\* on the same base assets
C3_SoundOnOneBase ==
    (run.pc # "idle" /\ \A i \in DOMAIN Calls : Calls[i].inp.base = run.inp.base)
    => LoadedAreFresh(run)

\* C4: a run that follows the run of a scenario differing from its own only in
\* network_edits, or only in gamma, derives the same mass key, loads the
\* layers, the weights and the topography without computing them, and
\* computes the graph and the travel times under new keys.
C4_NetworkOnlyReusesMass ==
    \A i, j \in DOMAIN hist :
        (/\ Follows(hist, i, j)
         /\ ValidEdits(hist[i].inp) /\ ValidEdits(hist[j].inp)
         /\ \/ OnlyDiffer(hist[i].inp.scenario, hist[j].inp.scenario, {"network_edits"})
            \/ OnlyDiffer(hist[i].inp.scenario, hist[j].inp.scenario, {"gamma"}))
        => /\ hist[j].keys.mass = hist[i].keys.mass
           /\ {"layers", "weights", "topo_pci"} \subseteq hist[j].loaded
           /\ ~Computed(hist[j], "layers") /\ ~Computed(hist[j], "topo_pci")
           /\ hist[j].keys.graph # hist[i].keys.graph
           /\ hist[j].keys.travel_times # hist[i].keys.travel_times
           /\ Computed(hist[j], "G_s") /\ Computed(hist[j], "travel_times")

\* what does hold: the same, when the first of the two runs returned
C4_WhenRunsReturn ==
    \A i, j \in DOMAIN hist :
        (/\ Follows(hist, i, j) /\ Returned(hist[i])
         /\ ValidEdits(hist[j].inp)
         /\ \/ OnlyDiffer(hist[i].inp.scenario, hist[j].inp.scenario, {"network_edits"})
            \/ OnlyDiffer(hist[i].inp.scenario, hist[j].inp.scenario, {"gamma"}))
        => /\ hist[j].keys.mass = hist[i].keys.mass
           /\ {"layers", "weights", "topo_pci"} \subseteq hist[j].loaded
           /\ ~Computed(hist[j], "layers") /\ ~Computed(hist[j], "topo_pci")
           /\ hist[j].keys.graph # hist[i].keys.graph
           /\ hist[j].keys.travel_times # hist[i].keys.travel_times
           /\ Computed(hist[j], "G_s") /\ Computed(hist[j], "travel_times")

StageOf(name) ==
    IF name \in {"layers", "weights", "topo_pci", "bci_masses"} THEN "mass"
    ELSE IF name = "G_s" THEN "graph"
    ELSE IF name = "travel_times" THEN "travel_times"
    ELSE IF name = "pci" THEN "pci" ELSE "bci"

StageRank(stage) ==
    IF stage = "mass" THEN 1 ELSE IF stage = "graph" THEN 2
    ELSE IF stage = "travel_times" THEN 3 ELSE IF stage = "pci" THEN 4 ELSE 5

\* the events of a call are in the order of the five stages
StagesInOrder(c) ==
    \A k, l \in DOMAIN c.events :
        k < l => StageRank(c.events[k].stage) <= StageRank(c.events[l].stage)

\* the step that handles the artifact name under keys[keyfield] loads it, and
\* writes and computes nothing, when the store holds it and its stage is not
\* forced, and computes and saves it otherwise
Gated(name, keyfield) ==
    LET key    == run'.keys[keyfield]
        held   == <<name, key>> \in DOMAIN store
        forced == StageOf(name) \in run.inp.recompute
    IN  IF held /\ ~forced
        THEN /\ name \in run'.loaded /\ ~Computed(run', name)
             /\ store'[<<name, key>>] = store[<<name, key>>]
        ELSE /\ name \notin run'.loaded /\ Computed(run', name)
             /\ <<name, key>> \in DOMAIN store'

GatedSteps(names) ==
    /\ (run.pc = "mass" /\ run'.pc = "topo")
          => (Gated("layers", "layers") /\ Gated("weights", "layers"))
    /\ (run.pc = "topo" /\ run'.pc = "bci_masses") => Gated("topo_pci", "topo")
    /\ (run.pc = "bci_masses" /\ run'.pc = "graph" /\ "bci_masses" \in names)
          => Gated("bci_masses", "bci_masses")
    /\ (run.pc = "graph" /\ run'.pc = "travel_times") => Gated("G_s", "graph")
    /\ (run.pc = "travel_times" /\ run'.pc = "pci")
          => Gated("travel_times", "travel_times")
    /\ (run.pc = "pci" /\ run'.pc = "bci") => Gated("pci", "pci")
    /\ (run.pc = "bci" /\ run'.pc = "return") => Gated("bci_out", "bci")

\* C5: within a run the stages execute in the order Mass/Topography, Graph,
\* Travel-Time, PCI, BCI, and each is gated the same way: an artifact held by
\* the store under the stage's key is loaded, nothing computed or written,
\* unless its stage is in the recompute set; otherwise it is computed and
\* saved under its key before the next stage starts.
C5_StagesGated ==
    /\ [](\A i \in DOMAIN Calls : StagesInOrder(Calls[i]))
    /\ [][GatedSteps(AllArtifacts)]_vars

\* what does hold: the same for every artifact but the BCI masses
C5_GatedButBciMasses ==
    /\ [](\A i \in DOMAIN Calls : StagesInOrder(Calls[i]))
    /\ [][GatedSteps(AllArtifacts \ {"bci_masses"})]_vars

\* two scenario objects have equal contents: the same edits in the same order,
\* the same parameters, and weights, betas and topo_rules that are the same
\* mappings whatever the order of insertion of their keys
Mappings == {"weights", "betas", "topo_rules"}
ContentEqual(s1, s2) ==
    /\ DOMAIN s1 = DOMAIN s2
    /\ \A f \in DOMAIN s1 \ (Mappings \cup {"name", "description"}) : s1[f] = s2[f]
    /\ \A f \in DOMAIN s1 \cap Mappings : dict_fn(s1[f]) = dict_fn(s2[f])

KeyNames == DOMAIN NoKeys

\* C6: structural keys are deterministic and order-independent.  Two calls
\* with scenarios of equal contents and the same max_time derive the same
\* mass, graph, travel-time, PCI and BCI keys, in any run and any process.
C6_KeysDeterministic ==
    \A i, j \in DOMAIN Calls :
        (/\ ContentEqual(Calls[i].inp.scenario, Calls[j].inp.scenario)
         /\ Calls[i].inp.max_time = Calls[j].inp.max_time)
        => \A k \in KeyNames :
              (Calls[i].keys[k] # NoKey /\ Calls[j].keys[k] # NoKey)
                 => Calls[i].keys[k] = Calls[j].keys[k]

\* what does hold: the same for two calls in one process
C6_InOneProcess ==
    \A i, j \in DOMAIN Calls :
        (/\ ContentEqual(Calls[i].inp.scenario, Calls[j].inp.scenario)
         /\ Calls[i].inp.max_time = Calls[j].inp.max_time
         /\ Calls[i].inp.seed = Calls[j].inp.seed)
        => \A k \in KeyNames :
              (Calls[i].keys[k] # NoKey /\ Calls[j].keys[k] # NoKey)
                 => Calls[i].keys[k] = Calls[j].keys[k]

(***************************************************************************)
(* Claims on the edit engines (SpecEdit)                                   *)
(***************************************************************************)
IsRedistribute(e) == e.kind = "redistribute_layer_to_hexes"
IsRemove(e)       == e.kind = "remove_layer_from_composite"
IsClose(e)        == e.kind = "close_edges"

\* the last iteration was a redistribute edit that succeeded
RedistributeDone ==
    /\ eng.which = "mass" /\ eng.n >= 1 /\ eng.pc # "raised"
    /\ IsRedistribute(eng.last)

ValidTargets(e, hex_ids) ==
    SelectSeq(e.target_hex_ids, LAMBDA h : h \in Range(hex_ids))

\* C7: mass conservation.  After every RedistributeLayerToHexes edit that
\* succeeds (either method, any target list) the sum of the output layer over
\* hex_ids equals the sum of the reindexed input layer.
C7_MassConservation ==
    RedistributeDone =>
        series_sum(eng.cur.layers[eng.last.layer].raw, eng.hex_ids)
            = series_sum(eng.prev.layers[eng.last.layer].raw, eng.hex_ids)

\* what does hold: the sum is conserved when no valid target is repeated
MassConservedWithoutRepeats ==
    (RedistributeDone /\ NoDuplicates(ValidTargets(eng.last, eng.hex_ids))) =>
        series_sum(eng.cur.layers[eng.last.layer].raw, eng.hex_ids)
            = series_sum(eng.prev.layers[eng.last.layer].raw, eng.hex_ids)

\* the containers of the result of the call and those of the caller
ResultContainers ==
    IF al.which = "mass" THEN mass_containers(heap, al.result[1], al.result[2])
    ELSE net_containers(heap, al.result[1])

InputContainers ==
    IF al.which = "mass" THEN mass_containers(heap, InLayersRef, InWeightsRef)
    ELSE net_containers(heap, InGraphRef)

C9_NoOpEdits ==
    (eng.which # "idle" /\ eng.pc = "returned" /\ eng.n = 0) =>
        /\ eng.ret.ok
        /\ eng.which = "mass" =>
            LET out == eng.ret.val
                inp == eng.input
            IN  /\ out.weights = inp.weights
                /\ DOMAIN out.layers = DOMAIN inp.layers
                /\ \A k \in DOMAIN inp.layers :
                     /\ out.layers[k].name = inp.layers[k].name
                     /\ out.layers[k].meta = inp.layers[k].meta
                     /\ DOMAIN out.layers[k].raw = Range(eng.hex_ids)
                     /\ \A h \in Range(eng.hex_ids) :
                          out.layers[k].raw[h] =
                            IF h \in DOMAIN inp.layers[k].raw
                               /\ inp.layers[k].raw[h] # NaN
                            THEN inp.layers[k].raw[h] ELSE R(0)
                /\ eng.ret = apply_mass_edits(inp.layers, inp.weights, eng.hex_ids, <<>>)
        /\ eng.which = "net" =>
            /\ eng.ret.val.nodes = eng.input.nodes
            /\ DOMAIN eng.ret.val.edges = DOMAIN eng.input.edges
            /\ \A x \in DOMAIN eng.input.edges :
                 eng.ret.val.edges[x] = eng.input.edges[x]
            /\ eng.ret = apply_network_edits(eng.input, <<>>, R(CLOSE_TIME))

\* an empty edit list on a layer with a hex missing from the input and a label
\* outside the index
C9_Witness ==
    /\ eng.which = "mass" /\ eng.pc = "returned" /\ eng.n = 0
    /\ DOMAIN eng.input.layers["food_retail"].raw = {"h1", "hx"}
    /\ eng.input.layers["food_retail"].raw["h1"] = R(4)
    /\ eng.ret.val.layers["food_retail"].raw["h2"] = R(0)

\* the last edit names a layer, target hexes or an edge that is not present, or
\* holds a CloseEdges tuple of a wrong arity
BadArity(e)  == \E i \in DOMAIN e.edges : Len(e.edges[i]) \notin {2, 3}
AbsentEdge(G, tp) ==
    \/ Len(tp) = 2 /\ ~has_edge2(G, tp[1], tp[2])
    \/ Len(tp) = 3 /\ ~has_edge3(G, tp[1], tp[2], tp[3])
RefersToMissing ==
    /\ eng.n >= 1
    /\ \/ /\ eng.which = "mass" /\ IsRedistribute(eng.last)
          /\ \/ eng.last.layer \notin DOMAIN eng.prev.layers
             \/ ValidTargets(eng.last, eng.hex_ids) = <<>>
       \/ /\ eng.which = "mass" /\ IsRemove(eng.last)
          /\ eng.last.layer \notin DOMAIN eng.prev.layers
       \/ /\ eng.which = "net" /\ IsClose(eng.last)
          /\ \/ BadArity(eng.last)
             \/ \E i \in DOMAIN eng.last.edges : AbsentEdge(eng.prev, eng.last.edges[i])

\* C10 as stated: an edit that references a layer, target hexes or an edge that
\* is not present, or a CloseEdges tuple whose arity is neither 2 nor 3, makes
\* the engine fail with an error instead of returning a result.
C10_MissingReferenceRaises ==
    RefersToMissing => (eng.pc = "raised" /\ ~eng.ret.ok)

\* C10 amended: the engine fails (and returns nothing) when a redistribute
\* names an unknown layer (KeyError), when a redistribute of a layer with a
\* non-zero total has no target in hex_ids (ValueError), and when a CloseEdges
\* tuple has an arity other than 2 or 3 (ValueError).  It does not fail when
\* RemoveLayerFromComposite names an unknown layer (the name gets weight 0, the
\* layers are unchanged), when a zero-total layer is redistributed to targets
\* outside hex_ids (the layer is all zero), or when CloseEdges names edges absent
\* from the network (they are skipped; the edge set is unchanged, and so is the
\* network when every named edge is absent).
C10_Amended ==
    (eng.which # "idle" /\ eng.n >= 1) =>
      LET e == eng.last IN
        /\ eng.pc = "raised" => ~eng.ret.ok
        /\ (eng.which = "mass" /\ IsRedistribute(e)
               /\ e.layer \notin DOMAIN eng.prev.layers)
             => (eng.pc = "raised" /\ eng.ret.err = "KeyError")
        /\ (eng.which = "mass" /\ IsRedistribute(e)
               /\ e.layer \in DOMAIN eng.prev.layers
               /\ ValidTargets(e, eng.hex_ids) = <<>>)
             => IF series_sum(eng.prev.layers[e.layer].raw, eng.hex_ids) # R(0)
                THEN eng.pc = "raised" /\ eng.ret.err = "ValueError"
                ELSE /\ eng.pc # "raised"
                     /\ \A h \in Range(eng.hex_ids) :
                           eng.cur.layers[e.layer].raw[h] = R(0)
        /\ (eng.which = "mass" /\ IsRemove(e)
               /\ e.layer \notin DOMAIN eng.prev.layers)
             => /\ eng.pc # "raised"
                /\ eng.cur.weights[e.layer] = R(0)
                /\ eng.cur.layers = eng.prev.layers
        /\ (eng.which = "net" /\ IsClose(e))
             => IF BadArity(e)
                THEN eng.pc = "raised" /\ eng.ret.err = "ValueError"
                ELSE /\ eng.pc # "raised"
                     /\ DOMAIN eng.cur.edges = DOMAIN eng.prev.edges
                     /\ (\A i \in DOMAIN e.edges : AbsentEdge(eng.prev, e.edges[i]))
                          => eng.cur = eng.prev

\* a redistribute of a non-empty layer whose only target is outside hex_ids
\* has raised
C10_Witness ==
    /\ eng.which = "mass" /\ eng.pc = "raised" /\ IsRedistribute(eng.last)
    /\ eng.last.layer = "food_retail" /\ eng.last.target_hex_ids = <<"hx">>
    /\ eng.ret.err = "ValueError"

\* the last iteration was a RemoveLayerFromComposite edit
RemoveDone == eng.which = "mass" /\ eng.n >= 1 /\ IsRemove(eng.last)

\* the layers but the one named l
layers_but(layers, l) == [k \in DOMAIN layers \ {l} |-> layers[k]]

\* C16: RemoveLayerFromComposite never deletes or changes a layer.  The edit
\* does not raise; after it every layer is present with the values it had
\* before (the reindexed input values when it is the first edit), the weight
\* of the named layer is 0, every other weight is unchanged, and the
\* composite topography equals the one built without the named layer.
C16_RemoveKeepsLayer ==
    RemoveDone =>
        LET l == eng.last.layer
        IN  /\ eng.pc # "raised"
            /\ eng.cur.layers = eng.prev.layers
            /\ (eng.n = 1 /\ l \in DOMAIN eng.input.layers) =>
                  /\ l \in DOMAIN eng.cur.layers
                  /\ eng.cur.layers[l].raw
                        = reindex_fillna(eng.input.layers[l].raw, eng.hex_ids, R(0))
            /\ DOMAIN eng.cur.weights = DOMAIN eng.prev.weights \cup {l}
            /\ eng.cur.weights[l] = R(0)
            /\ \A k \in DOMAIN eng.prev.weights \ {l} :
                  eng.cur.weights[k] = eng.prev.weights[k]
            /\ build_composite_topography(eng.cur.layers, eng.cur.weights,
                                          eng.hex_ids, <<>>)
                 = build_composite_topography(layers_but(eng.cur.layers, l),
                                              eng.cur.weights, eng.hex_ids, <<>>)

\* the layer food_retail, of weight 1 and of non-zero values given on an
\* index that is not hex_ids, is removed from the composite, which changes
C16_Witness ==
    /\ RemoveDone /\ eng.n = 1 /\ eng.last.layer = "food_retail"
    /\ DOMAIN eng.input.layers["food_retail"].raw = {"h1", "hx"}
    /\ eng.cur.layers["food_retail"].raw["h1"] = R(4)
    /\ eng.prev.weights["food_retail"] = R(1)
    /\ build_composite_topography(eng.cur.layers, eng.cur.weights, eng.hex_ids, <<>>)
         # build_composite_topography(eng.prev.layers, eng.prev.weights,
                                     eng.hex_ids, <<>>)

\* the last iteration was a redistribute edit that succeeded on a layer of
\* non-zero total
RedistributedMass ==
    /\ RedistributeDone
    /\ series_sum(eng.prev.layers[eng.last.layer].raw, eng.hex_ids) # R(0)

\* the sum of the values w[t] over the entries t of the list targets
SumAt(w, targets) == SumSeq([i \in DOMAIN targets |-> w[targets[i]]])

\* C17: the result of a redistribution.  After a RedistributeLayerToHexes
\* that succeeds on a layer of non-zero total, every hex that is no valid
\* target holds 0; with method equal every valid target holds the total
\* divided by the number of valid targets (the entries of the target list that
\* are hex ids); with method proportional_to_existing every valid target holds
\* the total times its value before the edit divided by the sum of those
\* values over the valid targets, and the equal split when those values are
\* all zero.
C17_RedistributionResult ==
    RedistributedMass =>
        LET s     == eng.prev.layers[eng.last.layer].raw
            out   == eng.cur.layers[eng.last.layer].raw
            T     == ValidTargets(eng.last, eng.hex_ids)
            total == series_sum(s, eng.hex_ids)
            equal == RDiv(total, R(Len(T)))
        IN  /\ \A h \in Range(eng.hex_ids) \ Range(T) : out[h] = R(0)
            /\ \A h \in Range(T) :
                  IF eng.last.method = "equal" THEN out[h] = equal
                  ELSE IF \A t \in Range(T) : s[t] = R(0) THEN out[h] = equal
                  ELSE /\ SumAt(s, T) # R(0)
                       /\ out[h] = RDiv(RMul(total, s[h]), SumAt(s, T))

\* what holds: the proportional method weights a target by its value clipped
\* at 0, and falls back to the equal split when no target has a positive
\* value
C17_Amended ==
    RedistributedMass =>
        LET s     == eng.prev.layers[eng.last.layer].raw
            out   == eng.cur.layers[eng.last.layer].raw
            T     == ValidTargets(eng.last, eng.hex_ids)
            total == series_sum(s, eng.hex_ids)
            equal == RDiv(total, R(Len(T)))
            pos   == [h \in Range(eng.hex_ids) |-> RMax(s[h], R(0))]
        IN  /\ \A h \in Range(eng.hex_ids) \ Range(T) : out[h] = R(0)
            /\ \A h \in Range(T) :
                  IF eng.last.method = "equal" THEN out[h] = equal
                  ELSE IF \A t \in Range(T) : RLe(s[t], R(0)) THEN out[h] = equal
                  ELSE out[h] = RDiv(RMul(total, pos[h]), SumAt(pos, T))

\* a proportional redistribution of a total of 6 onto a target of value -2
\* and a target of value 4: the first gets nothing, the second the whole
C17_Witness ==
    /\ RedistributedMass /\ eng.last.method = "proportional_to_existing"
    /\ eng.last.target_hex_ids = <<"h1", "h2">>
    /\ eng.prev.layers["food_retail"].raw
         = [h \in {"h1", "h2", "h3"} |-> IF h = "h1" THEN R(-2) ELSE R(4)]
    /\ eng.cur.layers["food_retail"].raw
         = [h \in {"h1", "h2", "h3"} |->
               IF h = "h2" THEN R(6) ELSE R(0)]

\* the last iteration was a redistribute edit of a layer that is present and
\* whose total was 0
RedistributeOfNothing ==
    /\ eng.which = "mass" /\ eng.n >= 1 /\ IsRedistribute(eng.last)
    /\ eng.last.layer \in DOMAIN eng.prev.layers
    /\ series_sum(eng.prev.layers[eng.last.layer].raw, eng.hex_ids) = R(0)

\* C18: a redistribution of a zero total is no error.  A
\* RedistributeLayerToHexes edit on a layer whose total is 0 does not raise,
\* whatever its target list and its method are, and leaves the layer zero in
\* every hex of hex_ids, the other layers and the weights as they were.
C18_ZeroTotalNoError ==
    RedistributeOfNothing =>
        LET l == eng.last.layer
        IN  /\ eng.pc # "raised"
            /\ eng.cur.layers[l].raw = [h \in Range(eng.hex_ids) |-> R(0)]
            /\ eng.cur.layers[l].name = eng.prev.layers[l].name
            /\ eng.cur.layers[l].meta = eng.prev.layers[l].meta
            /\ layers_but(eng.cur.layers, l) = layers_but(eng.prev.layers, l)
            /\ eng.cur.weights = eng.prev.weights

\* a layer of values -2, -2 and 4 is redistributed with an unknown method to
\* a target list that holds no hex id
C18_Witness ==
    /\ RedistributeOfNothing /\ eng.pc = "loop"
    /\ eng.last.method = "nearest"
    /\ eng.last.target_hex_ids # <<>>
    /\ ValidTargets(eng.last, eng.hex_ids) = <<>>
    /\ eng.prev.layers[eng.last.layer].raw["h3"] = R(4)
    /\ eng.cur.layers[eng.last.layer].raw["h3"] = R(0)

\* the last of two or more iterations was a redistribute edit that succeeded,
\* and an earlier one changed the values of a layer: it was a redistribute
\* edit too, and of the same layer, the only one of the inputs that can be
\* redistributed
TwoRedistributes ==
    /\ RedistributeDone /\ eng.n >= 2
    /\ eng.prev.layers
         # mass_edits_start(eng.input.layers, eng.input.weights, eng.hex_ids).layers

\* the values that a proportional redistribution of s to the targets T gives
proportional_of(s, T, hex_ids) ==
    LET total == series_sum(s, hex_ids)
        pos   == [h \in Range(hex_ids) |-> RMax(s[h], R(0))]
    IN  [h \in Range(hex_ids) |->
            IF h \notin Range(T) THEN R(0)
            ELSE IF RLe(SumAt(pos, T), R(0)) THEN RDiv(total, R(Len(T)))
            ELSE RDiv(RMul(total, pos[h]), SumAt(pos, T))]

\* C19: mass edits apply in list order and cumulatively.  After two
\* RedistributeLayerToHexes edits of one layer, the whole mass of the layer,
\* the total of its reindexed input values, sits on the valid targets of the
\* second edit, and a second edit of method proportional_to_existing weights
\* its targets by the values that the first edit left.
C19_EditsCumulate ==
    TwoRedistributes =>
        LET l    == eng.last.layer
            T    == ValidTargets(eng.last, eng.hex_ids)
            base == reindex_fillna(eng.input.layers[l].raw, eng.hex_ids, R(0))
            left == eng.prev.layers[l].raw
            out  == eng.cur.layers[l].raw
        IN  /\ \A h \in Range(eng.hex_ids) \ Range(T) : out[h] = R(0)
            /\ series_sum(out, eng.hex_ids) = series_sum(base, eng.hex_ids)
            /\ (/\ eng.last.method = "proportional_to_existing"
                /\ series_sum(left, eng.hex_ids) # R(0)) =>
                  out = proportional_of(left, T, eng.hex_ids)

\* what holds: the second edit works on the values that the first one left,
\* and moves their total to its valid targets when none of these is repeated
C19_SecondSeesFirst ==
    TwoRedistributes =>
        LET l    == eng.last.layer
            T    == ValidTargets(eng.last, eng.hex_ids)
            left == eng.prev.layers[l].raw
            out  == eng.cur.layers[l].raw
        IN  /\ \A h \in Range(eng.hex_ids) \ Range(T) : out[h] = R(0)
            /\ NoDuplicates(T) =>
                  series_sum(out, eng.hex_ids) = series_sum(left, eng.hex_ids)
            /\ (/\ eng.last.method = "proportional_to_existing"
                /\ series_sum(left, eng.hex_ids) # R(0)) =>
                  out = proportional_of(left, T, eng.hex_ids)

\* the edge x = (u, v, key) is named by a tuple of the CloseEdges edit e
ClosedBy(e, x) ==
    \E i \in DOMAIN e.edges :
        \/ Len(e.edges[i]) = 2 /\ e.edges[i] = <<x[1], x[2]>>
        \/ Len(e.edges[i]) = 3 /\ e.edges[i] = x

\* the edge of attributes data is what the edit e is aimed at
TargetedBy(e, x, data) ==
    IF e.kind = "close_edges" THEN ClosedBy(e, x)
    ELSE IF e.kind = "speed_factor_by_attribute"
    THEN edge_matches_where(data, e.where)
    ELSE IF e.kind = "remove_transit_line"
    THEN /\ data_get(data, "mode") = PyStr("transit")
         /\ py_str(data_get(data, "route_id")) = py_str(e.route_id)
    ELSE FALSE

\* the last iteration was a network edit that succeeded
NetEditDone == eng.which = "net" /\ eng.n >= 1 /\ eng.pc # "raised"

\* C20: CloseEdges closes the targeted edges only and the topology is kept.
\* A CloseEdges edit sets time_min to close_time on every parallel edge from u
\* to v that a tuple (u, v) names and on the one edge that a tuple
\* (u, v, key) names, and leaves every other edge as it was; during and after
\* any list of network edits the nodes and the (u, v, key) edges are those of
\* the base network, and an edit leaves the attributes of every edge that it
\* is not aimed at as they were.
C20_CloseEdgesFrame ==
    eng.which = "net" =>
        /\ eng.cur.nodes = eng.input.nodes
        /\ DOMAIN eng.cur.edges = DOMAIN eng.input.edges
        /\ eng.ret.ok =>
              /\ eng.ret.val.nodes = eng.input.nodes
              /\ DOMAIN eng.ret.val.edges = DOMAIN eng.input.edges
        /\ NetEditDone =>
              \A x \in DOMAIN eng.input.edges :
                  IF TargetedBy(eng.last, x, eng.prev.edges[x])
                  THEN IsClose(eng.last) =>
                         /\ eng.cur.edges[x]["time_min"] = R(CLOSE_TIME)
                         /\ \A a \in DOMAIN eng.prev.edges[x] \ {"time_min"} :
                               eng.cur.edges[x][a] = eng.prev.edges[x][a]
                  ELSE eng.cur.edges[x] = eng.prev.edges[x]

\* after an edit that changed a time, CloseEdges with the tuple (a, b, 1)
\* closes that edge and leaves the parallel edge (a, b, 0) as it was
C20_Witness ==
    /\ NetEditDone /\ eng.n = 2 /\ eng.prev # graph_copy(eng.input)
    /\ eng.last = CloseEdges(<< <<"a", "b", "1">> >>)
    /\ eng.cur.edges[<<"a", "b", "1">>]["time_min"] = R(CLOSE_TIME)
    /\ eng.prev.edges[<<"a", "b", "1">>]["time_min"] # R(CLOSE_TIME)
    /\ eng.cur.edges[<<"a", "b", "0">>] = eng.prev.edges[<<"a", "b", "0">>]
    /\ eng.cur.edges[<<"a", "b", "0">>]["time_min"] # R(CLOSE_TIME)

\* the last iteration was a SpeedFactorByAttribute edit that succeeded
SpeedDone == NetEditDone /\ eng.last.kind = "speed_factor_by_attribute"

\* the value v of where agrees with the attribute value a
Agrees(v, a) == IF v.coll # "" THEN a \in Range(v.items) ELSE a = v.val

\* the edge has a time_min that is not None
HasTime(data) == "time_min" \in DOMAIN data /\ ~IsNone(data["time_min"])

\* the edge of attributes now is the edge of attributes was with its time_min
\* multiplied by factor
Scaled(was, now, factor) ==
    /\ DOMAIN now = DOMAIN was
    /\ now["time_min"] = RMul(was["time_min"], factor)
    /\ \A a \in DOMAIN was \ {"time_min"} : now[a] = was[a]

\* C21: SpeedFactorByAttribute scales exactly the matching edges.  An edge
\* matches when for every key of where it has the attribute and its value
\* equals the given value or is a member of the given list or set: an edge
\* that lacks a filtered attribute does not match.  The edit multiplies the
\* time_min of every matching edge that has one by factor, and leaves the
\* matching edges without a time_min and the edges that do not match as they
\* were, without an error.
C21_SpeedFactorWhere ==
    SpeedDone =>
        \A x \in DOMAIN eng.prev.edges :
            LET was == eng.prev.edges[x]
                matches == \A i \in DOMAIN eng.last.where :
                              /\ eng.last.where[i][1] \in DOMAIN was
                              /\ Agrees(eng.last.where[i][2], was[eng.last.where[i][1]])
            IN  IF matches /\ HasTime(was)
                THEN Scaled(was, eng.cur.edges[x], eng.last.factor)
                ELSE eng.cur.edges[x] = was

\* what holds: an attribute that an edge lacks counts as None, so that the
\* edge matches a filter whose value for that key is None, or a list or set
\* that holds None
C21_Amended ==
    /\ (eng.which = "net" /\ eng.n >= 1
           /\ eng.last.kind = "speed_factor_by_attribute") => eng.pc # "raised"
    /\ SpeedDone =>
        \A x \in DOMAIN eng.prev.edges :
            LET was == eng.prev.edges[x]
                matches == \A i \in DOMAIN eng.last.where :
                              Agrees(eng.last.where[i][2],
                                     IF eng.last.where[i][1] \in DOMAIN was
                                     THEN was[eng.last.where[i][1]] ELSE PyNone)
            IN  IF matches /\ HasTime(was)
                THEN Scaled(was, eng.cur.edges[x], eng.last.factor)
                ELSE eng.cur.edges[x] = was

\* the filter mode in [transit, bike] with factor 1/2: the transit edge
\* (a, b, 1) is halved, the bike edge (c, a, 0), which has no time_min, the
\* transit edge (c, b, 0), whose time_min is None, and the walk edge
\* (a, b, 0) are as they were
C21_Witness ==
    /\ SpeedDone /\ eng.n = 1 /\ eng.last.factor = <<1, 2>>
    /\ eng.last.where
         = << <<"mode", Coll("list", <<PyStr("transit"), PyStr("bike")>>)>> >>
    /\ eng.cur.edges[<<"a", "b", "1">>]["time_min"] = R(1)
    /\ "time_min" \notin DOMAIN eng.cur.edges[<<"c", "a", "0">>]
    /\ IsNone(eng.cur.edges[<<"c", "b", "0">>]["time_min"])
    /\ eng.cur.edges[<<"a", "b", "0">>] = eng.input.edges[<<"a", "b", "0">>]

(***************************************************************************)
(* Claims on configuration errors (Spec)                                   *)
(***************************************************************************)
KNOWN_METHODS == {"equal", "proportional_to_existing"}

UnknownMethod(inp) ==
    \E k \in DOMAIN inp.scenario.mass_edits :
        /\ IsRedistribute(inp.scenario.mass_edits[k])
        /\ inp.scenario.mass_edits[k].method \notin KNOWN_METHODS

ConfigError(inp) == init_raises(inp.base) \/ UnknownMethod(inp)

\* the call computed or saved something
Worked(c) == \E k \in DOMAIN c.events : c.events[k].op \in {"compute", "save"}

\* C11: configuration errors abort before any stage executes.  A call whose
\* base assets lack a required key, or whose scenario holds a redistribution
\* with an unknown method, ends with an error, having computed no stage and
\* written no artifact.
C11_ConfigErrorsAbort ==
    \A i \in DOMAIN hist :
        ConfigError(hist[i].inp) =>
            hist[i].outcome = "raised" /\ ~Worked(hist[i])

\* what holds: missing base assets are rejected when the runner is built, and
\* an unknown method is rejected inside the Mass stage, before anything is
\* saved, when the layer it redistributes has a non-zero total
C11_RejectedWhenReached ==
    \A i \in DOMAIN hist :
        /\ init_raises(hist[i].inp.base) =>
              hist[i].outcome = "raised" /\ hist[i].at = "init" /\ ~Worked(hist[i])
        /\ (UnknownMethod(hist[i].inp) /\ hist[i].inp.scenario.name = "bad_method") =>
              /\ hist[i].outcome = "raised" /\ hist[i].err = "ValueError"
              /\ hist[i].at = "mass" /\ ~Worked(hist[i])

(***************************************************************************)
(* Claims on the stages of a run (Spec)                                    *)
(***************************************************************************)
\* the edges of G that the CloseEdges edits of a list name
ClosedEdges(G, edits) ==
    {x \in DOMAIN G.edges :
        \E k \in DOMAIN edits :
            /\ IsClose(edits[k])
            /\ \E n \in DOMAIN edits[k].edges :
                  LET e == edits[k].edges[n]
                  IN  \/ Len(e) = 2 /\ x[1] = e[1] /\ x[2] = e[2]
                      \/ Len(e) = 3 /\ x = e}

without_edges(G, X) == [G EXCEPT !.edges = [x \in DOMAIN G.edges \ X |-> G.edges[x]]]

\* the calls that closed an edge and hold a travel-time table
ClosingCalls ==
    {i \in DOMAIN Calls :
        /\ Calls[i].out.travel_times # Nil /\ Calls[i].out.G_s # Nil
        /\ ClosedEdges(BaseAssets(Calls[i].inp.base).G_base,
                       Calls[i].inp.scenario.network_edits) # {}}

PerHex(c) ==
    {c.out.layers[k].raw : k \in DOMAIN c.out.layers}
    \cup {c.out.topo_pci, c.out.market_mass, c.out.labour_mass, c.out.pci,
          c.out.bci_out.BCI, c.out.bci_out.A_market, c.out.bci_out.A_labour}

\* C15: the hex index is universal.  Every per-hex quantity that a run
\* returns is a series over exactly the hex ids of the runner's base assets,
\* whether it was computed or loaded from the store, and no layer holds a
\* missing value.
C15_UniversalIndex ==
    \A i \in DOMAIN hist :
        Returned(hist[i]) =>
            /\ \A s \in PerHex(hist[i]) :
                  DOMAIN s = Range(BaseAssets(hist[i].inp.base).hex_ids)
            /\ \A k \in DOMAIN hist[i].out.layers :
                  \A h \in DOMAIN hist[i].out.layers[k].raw :
                      ~IsNaN(hist[i].out.layers[k].raw[h])

\* what holds: a call that loaded nothing returns every per-hex quantity over
\* the hex ids of its base assets, and so does a call whose predecessors all
\* ran on the same hex ids
C15_IndexOnOneGrid ==
    \A i \in DOMAIN hist :
        (/\ Returned(hist[i])
         /\ \/ hist[i].loaded = {}
            \/ \A j \in 1..i : BaseAssets(hist[j].inp.base).hex_ids
                                   = BaseAssets(hist[i].inp.base).hex_ids) =>
            \A s \in PerHex(hist[i]) :
                DOMAIN s = Range(BaseAssets(hist[i].inp.base).hex_ids)

\* the scenario of the call is a Scenario value object: it has the fields of
\* the dataclass and no other attribute
IsScenarioObject(sc) == DOMAIN sc = DOMAIN Scenario("")

\* C27: a run of a Scenario object returns.  Every run of a scenario built
\* from the Scenario value object, with edits that the engines accept, on
\* base assets that hold every required key, derives its keys, passes the
\* five stages and returns its results without raising.
C27_ScenarioRunsReturn ==
    \A i \in DOMAIN hist :
        (/\ IsScenarioObject(hist[i].inp.scenario)
         /\ ~init_raises(hist[i].inp.base)
         /\ apply_network_edits(BaseAssets(hist[i].inp.base).G_base,
                                hist[i].inp.scenario.network_edits, R(CLOSE_TIME)).ok) =>
            /\ Returned(hist[i])
            /\ hist[i].at = "return"

\* the parks layer of the base holds coverage ratios (no value above 1.5), or
\* the base gives the hex areas
ParksUsable(inp) ==
    \/ BaseAssets(inp.base).has_area
    \/ \A h \in DOMAIN BaseAssets(inp.base).layers["parks"].raw :
          RLe(BaseAssets(inp.base).layers["parks"].raw[h], <<3, 2>>)

\* what holds: a run of a Scenario object raises AttributeError before any
\* stage and leaves the store as it was; a run of an object that carries
\* topo_rules as well, with edits that the engines accept and a parks layer
\* that the PCI stage can mask with, returns
C27_RaisesBeforeStages ==
    \A i \in DOMAIN hist :
        /\ (IsScenarioObject(hist[i].inp.scenario) /\ ~init_raises(hist[i].inp.base)) =>
              /\ hist[i].outcome = "raised" /\ hist[i].err = "AttributeError"
              /\ hist[i].at = "start" /\ hist[i].events = <<>>
        /\ (/\ "topo_rules" \in DOMAIN hist[i].inp.scenario
            /\ ~init_raises(hist[i].inp.base)
            /\ ParksUsable(hist[i].inp)
            /\ ValidEdits(hist[i].inp)) => Returned(hist[i])

(***************************************************************************)
(* Claims on aborted runs (Spec)                                           *)
(***************************************************************************)
ArtifactNames ==
    {"layers", "weights", "topo_pci", "bci_masses", "G_s", "travel_times",
     "pci", "bci_out"}

\* the position of a step of run() among its steps, and the step that
\* handles an artifact
PcRank(pc) ==
    IF pc \in {"init", "start"} THEN 0 ELSE IF pc = "mass" THEN 1
    ELSE IF pc = "topo" THEN 2 ELSE IF pc = "bci_masses" THEN 3
    ELSE IF pc = "graph" THEN 4 ELSE IF pc = "travel_times" THEN 5
    ELSE IF pc = "pci" THEN 6 ELSE IF pc = "bci" THEN 7 ELSE 8

NameRank(name) ==
    IF name \in {"layers", "weights"} THEN 1 ELSE IF name = "topo_pci" THEN 2
    ELSE IF name = "bci_masses" THEN 3 ELSE IF name = "G_s" THEN 4
    ELSE IF name = "travel_times" THEN 5 ELSE IF name = "pci" THEN 6 ELSE 7

\* the key under which a call handles an artifact, and the object it holds
KeyIn(c, name) ==
    IF name \in {"layers", "weights"} THEN c.keys.layers
    ELSE IF name = "topo_pci" THEN c.keys.topo
    ELSE IF name = "bci_masses" THEN c.keys.bci_masses
    ELSE IF name = "G_s" THEN c.keys.graph
    ELSE IF name = "travel_times" THEN c.keys.travel_times
    ELSE IF name = "pci" THEN c.keys.pci ELSE c.keys.bci

ObjIn(c, name) ==
    IF name = "bci_masses" THEN <<c.out.market_mass, c.out.labour_mass>>
    ELSE c.out[name]

SavedIn(c, name) ==
    \E k \in DOMAIN c.events : c.events[k].op = "save" /\ c.events[k].name = name

Aborted(c) == c.outcome = "raised" /\ PcRank(c.at) >= 1

\* the files are those that the calls saved, each holding the whole object of
\* the last call that saved it
FilesAreSavedArtifacts ==
    /\ DOMAIN store =
          {<<name, KeyIn(Calls[i], name)>> :
              <<i, name>> \in {x \in (DOMAIN Calls) \X ArtifactNames :
                                  SavedIn(Calls[x[1]], x[2])}}
    /\ \A i \in DOMAIN Calls : \A name \in ArtifactNames :
          (/\ SavedIn(Calls[i], name)
           /\ \A j \in DOMAIN Calls :
                 (j > i /\ SavedIn(Calls[j], name))
                     => KeyIn(Calls[j], name) # KeyIn(Calls[i], name))
            => store[<<name, KeyIn(Calls[i], name)>>] = pickle_dumps(ObjIn(Calls[i], name))

\* C28: an aborted run writes nothing for the failing stage or a later one.
\* A call that raised inside a stage loaded or saved every artifact of the
\* stages before it and computed and saved none of that stage or a later one;
\* the files of the store are exactly those that completed stages saved,
\* whole; and a later call of the same scenario loads no artifact of the
\* failing stage unless a call in between saved it: run right after the
\* aborted call it computes the stage again and raises the same error.
C28_AbortWritesNothing ==
    /\ FilesAreSavedArtifacts
    /\ \A i \in DOMAIN hist :
          Aborted(hist[i]) =>
              /\ \A k \in DOMAIN hist[i].events :
                    hist[i].events[k].op \in {"compute", "save"}
                        => NameRank(hist[i].events[k].name) < PcRank(hist[i].at)
              /\ \A name \in ArtifactNames :
                    NameRank(name) < PcRank(hist[i].at)
                        => (name \in hist[i].loaded \/ SavedIn(hist[i], name))
              /\ \A name \in ArtifactNames :
                    NameRank(name) >= PcRank(hist[i].at)
                        => \/ <<name, KeyIn(hist[i], name)>> \notin DOMAIN store
                           \/ \E m \in DOMAIN Calls :
                                 /\ m # i /\ SavedIn(Calls[m], name)
                                 /\ KeyIn(Calls[m], name) = KeyIn(hist[i], name)
    /\ \A i \in DOMAIN hist : \A j \in DOMAIN Calls :
          (/\ Aborted(hist[i]) /\ i < j
           /\ Calls[j].inp.base = hist[i].inp.base
           /\ Calls[j].inp.scenario = hist[i].inp.scenario
           /\ Calls[j].inp.max_time = hist[i].inp.max_time)
            => /\ \A name \in ArtifactNames :
                     (NameRank(name) = PcRank(hist[i].at) /\ name \in Calls[j].loaded)
                         => \E m \in DOMAIN Calls :
                               /\ i < m /\ m < j /\ SavedIn(Calls[m], name)
                               /\ KeyIn(Calls[m], name) = KeyIn(Calls[j], name)
               /\ (j = i + 1 /\ Calls[j].outcome # "running")
                     => /\ Calls[j].outcome = "raised"
                        /\ Calls[j].at = hist[i].at /\ Calls[j].err = hist[i].err

\* a call aborted in the PCI stage after it computed and saved the graph and
\* the travel times, followed by a call of the same scenario that loaded
\* them and aborted in the PCI stage again
C28_Witness ==
    /\ Len(hist) = 2
    /\ Aborted(hist[1]) /\ hist[1].at = "pci"
    /\ SavedIn(hist[1], "G_s") /\ SavedIn(hist[1], "travel_times")
    /\ hist[2].inp = hist[1].inp
    /\ Aborted(hist[2]) /\ hist[2].at = "pci"
    /\ "travel_times" \in hist[2].loaded
    /\ <<"pci", hist[1].keys.pci>> \notin DOMAIN store

(***************************************************************************)
(* Claims on closed edges in the scenario graph (Spec)                     *)
(***************************************************************************)
\* the calls that computed their scenario graph from a list of edits that
\* closes an edge
GraphClosingCalls ==
    {i \in DOMAIN Calls :
        /\ Computed(Calls[i], "G_s") /\ Calls[i].out.G_s # Nil
        /\ ClosedEdges(BaseAssets(Calls[i].inp.base).G_base,
                       Calls[i].inp.scenario.network_edits) # {}}

\* C30: a closed edge stays closed.  In the scenario graph that a call
\* computed (after every edit of the list and after the topography
\* weighting, gamma >= 0), the time_min of every edge that a CloseEdges edit
\* of the list closed is at least close_time.
C30_ClosedStaysClosed ==
    \A i \in GraphClosingCalls :
        LET c == Calls[i]
            X == ClosedEdges(BaseAssets(c.inp.base).G_base, c.inp.scenario.network_edits)
        IN  \A x \in X : RLe(R(CLOSE_TIME), c.out.G_s.edges[x]["time_min"])

\* what holds: the closed edges keep a time of at least close_time when no
\* SpeedFactorByAttribute edit is in the list
C30_ClosedWithoutSpeedFactor ==
    \A i \in GraphClosingCalls :
        LET c == Calls[i]
            X == ClosedEdges(BaseAssets(c.inp.base).G_base, c.inp.scenario.network_edits)
        IN  (\A k \in DOMAIN c.inp.scenario.network_edits :
                c.inp.scenario.network_edits[k].kind # "speed_factor_by_attribute")
                => \A x \in X : RLe(R(CLOSE_TIME), c.out.G_s.edges[x]["time_min"])

(***************************************************************************)
(* SpecIndex: a call compute_pci(...) or compute_bci(...) on a travel-time *)
(* table and masses drawn from the inputs below.  eng holds the arguments  *)
(* and, once the call has returned or raised, its result.                  *)
(***************************************************************************)
IHexIds == <<"h1", "h2">>
IHexes  == {"h1", "h2"}
ITimes  == {R(0), R(4)}

\* a row holds a time for some destinations; a table holds a row for some
\* origins
IRows   == UNION {[D -> ITimes] : D \in SUBSET IHexes}
ITables == UNION {[O -> IRows] : O \in SUBSET IHexes}

IMasses ==
    [IHexes -> {R(0), R(1), R(3)}]
    \cup {[h \in IHexes |-> IF h = "h1" THEN NaN ELSE R(1)],
          [h \in IHexes |-> IF h = "h1" THEN R(-1) ELSE R(3)]}

IIncome == [h \in IHexes |-> IF h = "h1" THEN R(62400) ELSE R(31200)]

\* parks as a coverage ratio (0.95 at h1), as an area (2 at h1 and 1 at h2, the
\* hexes of area 2), or no parks layer
ILayer(name, v1, v2) ==
    MassLayer(name, [h \in IHexes |-> IF h = "h1" THEN v1 ELSE v2], <<>>)

ILayerSets ==
    {[k \in {"food_retail"} |-> ILayer(k, R(1), R(2))],
     [k \in {"food_retail", "parks"} |->
         IF k = "parks" THEN ILayer(k, <<19, 20>>, R(0)) ELSE ILayer(k, R(1), R(2))],
     [k \in {"food_retail", "parks"} |->
         IF k = "parks" THEN ILayer(k, R(2), R(1)) ELSE ILayer(k, R(2), R(2))]}

IHexArea == [h \in IHexes |-> R(2)]

IThresholds == {<<9, 10>>, <<19, 20>>, <<24, 25>>}

PciArgs ==
    [beta : {R(0), <<1, 4>>}, mode_cost : {R(0), R(2)}, layers : ILayerSets,
     park_mask_enabled : BOOLEAN, park_mask_threshold : IThresholds,
     has_area : BOOLEAN]

BciArgs ==
    [beta_market : {R(0), <<1, 4>>},
     labour : {[h \in IHexes |-> R(1)], [h \in IHexes |-> IF h = "h1" THEN R(2) ELSE R(0)]},
     has_interface : BOOLEAN, interface_lambda : {R(0), <<1, 2>>}]

IInterface == [h \in IHexes |-> IF h = "h1" THEN R(5) ELSE R(1)]

InitIndex ==
    /\ \E tt \in ITables, m \in IMasses :
          eng = [which |-> "index", pc |-> "input", travel_times |-> tt, mass |-> m,
                 args |-> <<>>, res |-> Raise("running")]
    /\ heap = Idle /\ al = Idle /\ store = Idle /\ run = Idle /\ hist = Idle

\* compute_pci(travel_times, topo_mass=mass, layers, betas, income, mode_cost,
\* active_lambda, park_mask_enabled, park_mask_threshold, hex_area_m2)
CallPci ==
    /\ eng.which = "index" /\ eng.pc = "input"
    /\ \E a \in PciArgs :
          eng' = [eng EXCEPT
                    !.pc = "pci", !.args = a,
                    !.res = compute_pci(eng.travel_times, eng.mass, IHexIds, a.layers,
                                [k \in {"pci"} |-> a.beta], IIncome, a.mode_cost,
                                <<3, 10>>, a.park_mask_enabled, a.park_mask_threshold,
                                a.has_area, IHexArea)]
    /\ UNCHANGED <<heap, al, store, run, hist>>

\* compute_bci(travel_times, population=mass, income, labour, betas,
\* interface, interface_lambda)
CallBci ==
    /\ eng.which = "index" /\ eng.pc = "input"
    /\ \E a \in BciArgs :
          eng' = [eng EXCEPT
                    !.pc = "bci", !.args = a,
                    !.res = Ok(compute_bci(eng.travel_times, eng.mass, IIncome, a.labour,
                                   IHexIds,
                                   [k \in {"market", "labour"} |->
                                       IF k = "market" THEN a.beta_market ELSE <<1, 4>>],
                                   a.has_interface, IInterface, a.interface_lambda))]
    /\ UNCHANGED <<heap, al, store, run, hist>>

HansenArgs == [beta : {R(0), <<1, 4>>}, mode_cost : {R(0), R(2)}, has_income : BOOLEAN]

\* hansen_accessibility(travel_times, dest_mass=mass, beta, income, mode_cost)
CallHansen ==
    /\ eng.which = "index" /\ eng.pc = "input"
    /\ \E a \in HansenArgs :
          eng' = [eng EXCEPT
                    !.pc = "hansen", !.args = a,
                    !.res = Ok(hansen_accessibility(eng.travel_times, eng.mass, IHexIds,
                                   a.beta, a.has_income, IIncome, a.mode_cost))]
    /\ UNCHANGED <<heap, al, store, run, hist>>

NextIndex == CallPci \/ CallBci \/ CallHansen

SpecIndex == InitIndex /\ [][NextIndex]_vars

(***************************************************************************)
(* Claims on the indices (SpecIndex)                                       *)
(***************************************************************************)
InRange(v) == ~IsNaN(v) /\ RLe(R(0), v) /\ RLe(v, R(100))

PciReturned == eng.which = "index" /\ eng.pc = "pci" /\ eng.res.ok
BciReturned == eng.which = "index" /\ eng.pc = "bci" /\ eng.res.ok

\* the BCI before its scaling (bci.py:63, 75-78), from the accessibilities
\* that compute_bci returns
bci_raw_of(out, a) ==
    LET nm == normalize_div_max(out.A_market)
        nl == normalize_div_max(out.A_labour)
        iface01 == rank_pct(reindex_fillna(IInterface, IHexIds, R(0)))
    IN  [h \in IHexes |->
            IF a.has_interface /\ a.interface_lambda # R(0)
            THEN RMul(RAdd(nm[h], nl[h]), RAdd(R(1), RMul(a.interface_lambda, iface01[h])))
            ELSE RAdd(nm[h], nl[h])]

\* C13: normalization boundedness.  Every value of the PCI that is not masked
\* and every value of the BCI lies in [0, 100], whatever the table, the masses
\* and the parameters are; a constant series is normalized to the constant
\* 50, so that the BCI is 50 everywhere when its raw values are all equal.
C13_Bounded ==
    /\ PciReturned => \A h \in IHexes : IsNaN(eng.res.val[h]) \/ InRange(eng.res.val[h])
    /\ BciReturned =>
          /\ \A h \in IHexes : InRange(eng.res.val.BCI[h])
          /\ Cardinality(Range(bci_raw_of(eng.res.val, eng.args))) = 1
                => \A h \in IHexes : eng.res.val.BCI[h] = R(50)
    /\ eng.which = "index" =>
          \A v \in {R(0), R(3), R(-1)} :
              normalize_minmax([h \in IHexes |-> v], R(100)) = [h \in IHexes |-> R(50)]

\* a BCI that is 50 everywhere, its raw values being all equal and not 0
C13_Witness ==
    /\ BciReturned /\ Range(eng.res.val.BCI) = {R(50)}
    /\ Range(bci_raw_of(eng.res.val, eng.args)) = {R(2)}

\* the park coverage that the mask reads (pci.py:87-96): the parks layer when
\* it holds ratios, its share of the hex area when it holds areas
coverage_of(a) ==
    LET parks == reindex_fillna(a.layers["parks"].raw, IHexIds, R(0))
    IN  IF RLe(SeriesMax(parks, IHexIds), <<3, 2>>) THEN parks
        ELSE compute_park_coverage(IHexArea, parks, IHexIds)

\* the PCI of the same call with the mask disabled
unmasked_pci ==
    compute_pci(eng.travel_times, eng.mass, IHexIds, eng.args.layers,
                [k \in {"pci"} |-> eng.args.beta], IIncome, eng.args.mode_cost,
                <<3, 10>>, FALSE, eng.args.park_mask_threshold,
                eng.args.has_area, IHexArea).val

\* C14: park mask.  With the mask enabled and a parks layer present, PCI[h] is
\* undefined exactly for the hexes whose park coverage is strictly greater
\* than park_mask_threshold and has its normalized value in every other hex
\* (a coverage of 0.95 is masked at the threshold 0.90 and not at 0.96 or
\* 0.95); with the mask disabled or without a parks layer no hex is undefined.
C14_ParkMask ==
    PciReturned =>
        LET a == eng.args
        IN  IF a.park_mask_enabled /\ "parks" \in DOMAIN a.layers
            THEN \A h \in IHexes :
                    IF RLt(a.park_mask_threshold, coverage_of(a)[h])
                    THEN IsNaN(eng.res.val[h])
                    ELSE eng.res.val[h] = unmasked_pci[h] /\ ~IsNaN(eng.res.val[h])
            ELSE eng.res.val = unmasked_pci /\ \A h \in IHexes : ~IsNaN(eng.res.val[h])

\* the coverage 0.95 at h1 is not masked at the threshold 0.95
C14_Witness ==
    /\ PciReturned /\ eng.args.park_mask_enabled /\ "parks" \in DOMAIN eng.args.layers
    /\ coverage_of(eng.args)["h1"] = <<19, 20>>
    /\ eng.args.park_mask_threshold = <<19, 20>>
    /\ ~IsNaN(eng.res.val["h1"])

HansenReturned == eng.which = "index" /\ eng.pc = "hansen"

\* the penalty of origin i in minutes: 0 when mode_cost <= 0 or no income is
\* given, else 60 * mode_cost / max(income_i / 2080, 7.25)
PenaltyOf(a, i) ==
    IF RLe(a.mode_cost, R(0)) \/ ~a.has_income THEN R(0)
    ELSE RMul(RDiv(a.mode_cost, RMax(RDiv(IIncome[i], R(2080)), <<29, 4>>)), R(60))

\* the sum over the destinations of J of mass_j * exp(-beta * (t_ij + p))
RECURSIVE DecaySum(_, _, _, _, _)
DecaySum(J, row, mass, beta, p) ==
    IF J = {} THEN R(0)
    ELSE LET j == CHOOSE x \in J : TRUE
         IN  RAdd(RMul(mass[j], exp_neg(RMul(beta, RAdd(row[j], p)))),
                  DecaySum(J \ {j}, row, mass, beta, p))

\* the destination masses, a missing one read as 0
MassOf == [h \in IHexes |-> IF IsNaN(eng.mass[h]) THEN R(0) ELSE eng.mass[h]]

\* C26: Hansen accessibility.  For every origin i, A_i is the sum over the
\* destinations j of the row of i of mass_j * exp(-beta * (t_ij + penalty_i)),
\* whatever the masses are, negative ones included, and 0 for an origin with
\* no row or an empty row; penalty_i is 0 when mode_cost <= 0.
C26_Hansen ==
    HansenReturned =>
        \A i \in IHexes :
            eng.res.val[i] =
                IF i \notin DOMAIN eng.travel_times THEN R(0)
                ELSE DecaySum(DOMAIN eng.travel_times[i], eng.travel_times[i],
                              MassOf, eng.args.beta, PenaltyOf(eng.args, i))

\* what holds: the sum runs over the destinations of the row whose mass is
\* positive
C26_PositiveMasses ==
    HansenReturned =>
        \A i \in IHexes :
            eng.res.val[i] =
                IF i \notin DOMAIN eng.travel_times THEN R(0)
                ELSE DecaySum({j \in DOMAIN eng.travel_times[i] : RLt(R(0), MassOf[j])},
                              eng.travel_times[i], MassOf, eng.args.beta,
                              PenaltyOf(eng.args, i))

(***************************************************************************)
(* SpecNet: a call build_topo_weighted_graph(G, topo_hex, node_to_hex,     *)
(* gamma) or a call compute_hex_travel_times(G, hex_to_node, max_time) on  *)
(* a network of the inputs below, the loop over the source nodes one       *)
(* iteration at a time.  The network has two parallel edges                *)
(* a -> b, one of them possibly of time_min None, an edge without time_min *)
(* and an isolated node z; q is not a node.                                *)
(***************************************************************************)
NHexIds == <<"h1", "h2", "h3">>

NGraph(t1, p, w) ==
    [nodes |-> {"a", "b", "c", "z"},
     edges |->
        [x \in {<<"a", "b", "0">>, <<"a", "b", "1">>, <<"b", "c", "0">>,
                <<"c", "a", "0">>} |->
            IF x = <<"a", "b", "0">> THEN [time_min |-> t1, mode |-> PyStr("walk")]
            ELSE IF x = <<"a", "b", "1">> THEN [time_min |-> p, mode |-> PyStr("transit")]
            ELSE IF x = <<"b", "c", "0">> THEN [time_min |-> w, mode |-> PyStr("walk")]
            ELSE [mode |-> PyStr("bike")]]]

NGraphs ==
    {NGraph(t1, p, w) : t1 \in {R(2), R(4)}, p \in {R(1), R(8), None_},
                        w \in {R(2), R(16)}}

NHexToNodes ==
    {[h \in {"h1", "h2", "h3"} |-> IF h = "h1" THEN "a" ELSE IF h = "h2" THEN "b" ELSE "c"],
     [h \in {"h1", "h2", "h3"} |-> IF h = "h3" THEN "b" ELSE "a"],
     [h \in {"h1", "h2", "h3"} |-> IF h = "h1" THEN "a" ELSE IF h = "h2" THEN "z" ELSE "q"],
     [h \in {"h1", "h2", "h3"} |-> IF h = "h3" THEN "c" ELSE "z"]}

NNodeToHexes ==
    {[n \in {"a", "b", "c"} |-> IF n = "a" THEN "h1" ELSE IF n = "b" THEN "h2" ELSE "h3"],
     [n \in {"a", "b"} |-> "h1"],
     [n \in {"a", "b", "c"} |-> IF n = "a" THEN "h1" ELSE IF n = "b" THEN "hx" ELSE "h3"]}

NTopos ==
    {[h \in {"h1", "h2", "h3"} |-> R(1)],
     [h \in {"h1", "h2", "h3"} |-> IF h = "h1" THEN R(0) ELSE IF h = "h2" THEN R(2) ELSE R(4)],
     [h \in {"h1", "h2", "h3"} |-> IF h = "h1" THEN R(4) ELSE IF h = "h2" THEN NaN ELSE R(0)]}

NGammas   == {R(0), <<1, 2>>, R(1)}
NMaxTimes == {R(3), R(60)}

\* mutant: one source per hex
source_groups_per_hex(hex_to_node) ==
    {<<hex_to_node[h], {h}>> : h \in DOMAIN hex_to_node}

\* lines 25-30 of dijkstra.py: the source nodes, each with the hexes that are
\* assigned to it
source_groups(hex_to_node) ==
    {<<n, {h \in DOMAIN hex_to_node : hex_to_node[h] = n}>> : n \in Range(hex_to_node)}

\* lines 45-51: the rows of the hexes of one source node
rows_of(hexes, lengths, hex_to_node) ==
    [o \in hexes |->
        [dd \in {x \in DOMAIN hex_to_node : hex_to_node[x] \in DOMAIN lengths} |->
            lengths[hex_to_node[dd]]]]

InitNet ==
    /\ \E G \in NGraphs :
          eng = [which |-> "netfn", pc |-> "input", G_in |-> G, G |-> G,
                 hex_to_node |-> <<>>, node_to_hex |-> <<>>, topo_hex |-> <<>>,
                 gamma |-> R(0), max_time |-> R(0), todo |-> {}, searches |-> 0,
                 travel_times |-> <<>>]
    /\ heap = Idle /\ al = Idle /\ store = Idle /\ run = Idle /\ hist = Idle

\* build_topo_weighted_graph(G, topo_hex, node_to_hex, gamma)
CallWeight ==
    /\ eng.which = "netfn" /\ eng.pc = "input"
    /\ \E nh \in NNodeToHexes, tp \in NTopos, gm \in NGammas :
          eng' = [eng EXCEPT
                    !.pc = "weighted", !.node_to_hex = nh, !.topo_hex = tp,
                    !.gamma = gm,
                    !.G = build_topo_weighted_graph(eng.G, tp, NHexIds, nh, gm)]
    /\ UNCHANGED <<heap, al, store, run, hist>>

\* compute_hex_travel_times(G, hex_to_node, max_time), lines 25-31
TimesStart ==
    /\ eng.which = "netfn" /\ eng.pc = "input"
    /\ \E hn \in NHexToNodes, mt \in NMaxTimes :
          eng' = [eng EXCEPT !.pc = "searching", !.hex_to_node = hn,
                             !.max_time = mt, !.todo = source_groups(hn)]
    /\ UNCHANGED <<heap, al, store, run, hist>>

\* lines 33-51: one iteration of the loop over the source nodes
TimesSearch ==
    /\ eng.which = "netfn" /\ eng.pc = "searching"
    /\ \E g \in eng.todo :
          LET r == single_source_dijkstra_path_length(eng.G, g[1], eng.max_time)
          IN  eng' = [eng EXCEPT
                        !.todo = @ \ {g}, !.searches = @ + 1,
                        !.travel_times =
                            IF r.ok
                            THEN dict_merge(@, rows_of(g[2], r.val, eng.hex_to_node))
                            ELSE @]
    /\ UNCHANGED <<heap, al, store, run, hist>>

\* line 53
TimesReturn ==
    /\ eng.which = "netfn" /\ eng.pc = "searching" /\ eng.todo = {}
    /\ eng' = [eng EXCEPT !.pc = "done"]
    /\ UNCHANGED <<heap, al, store, run, hist>>

NextNet == CallWeight \/ TimesStart \/ TimesSearch \/ TimesReturn

SpecNet == InitNet /\ [][NextNet]_vars

(***************************************************************************)
(* Claims on the network functions (SpecNet)                               *)
(***************************************************************************)
Weighted == eng.which = "netfn" /\ eng.pc = "weighted"

\* the normalised topography of the hex of node n, 0 for a node that has no
\* hex or whose hex has no topography
TopoAt(n) ==
    LET t   == [h \in Range(NHexIds) |->
                  IF IsNaN(eng.topo_hex[h]) THEN R(0) ELSE eng.topo_hex[h]]
        mn  == MinOf(Range(t))
        mx  == MaxOf(Range(t))
    IN  IF n \notin DOMAIN eng.node_to_hex THEN R(0)
        ELSE IF eng.node_to_hex[n] \notin DOMAIN t THEN R(0)
        ELSE IF mn = mx THEN R(0)
        ELSE RDiv(RSub(t[eng.node_to_hex[n]], mn), RSub(mx, mn))

\* C22: topography weighting.  The weighted time of every edge (u, v) that
\* has a time_min is its time times 1 + gamma * 0.5 * (mu + mv), where mu and
\* mv are the min-max normalised topography of the hexes of u and v and 0
\* for an endpoint without a hex; it lies between the time and the time
\* times 1 + gamma, and is the time when all hexes have the same topography;
\* an edge without a time_min is unchanged, and so are the nodes, the edges
\* and the other attributes.
C22_TopoWeighting ==
    Weighted =>
        /\ eng.G.nodes = eng.G_in.nodes
        /\ DOMAIN eng.G.edges = DOMAIN eng.G_in.edges
        /\ \A x \in DOMAIN eng.G_in.edges :
              LET was == eng.G_in.edges[x]
                  now == eng.G.edges[x]
                  f   == RAdd(R(1), RMul(RMul(eng.gamma, <<1, 2>>),
                                         RAdd(TopoAt(x[1]), TopoAt(x[2]))))
              IN  IF HasTime(was)
                  THEN /\ Scaled(was, now, f)
                       /\ RLe(was["time_min"], now["time_min"])
                       /\ RLe(now["time_min"],
                              RMul(was["time_min"], RAdd(R(1), eng.gamma)))
                       /\ (\A h1, h2 \in DOMAIN eng.topo_hex :
                              eng.topo_hex[h1] = eng.topo_hex[h2]) =>
                                now["time_min"] = was["time_min"]
                  ELSE now = was

\* gamma 1 on the topography 0, 2, 4 of h1, h2, h3: the edge a -> b of time 4
\* between h1 and h2 takes 5, the edge b -> c of time 2 between h2 and h3
\* takes 3.5, the edge without time_min has none
C22_Witness ==
    /\ Weighted /\ eng.gamma = R(1)
    /\ eng.topo_hex["h2"] = R(2) /\ eng.topo_hex["h3"] = R(4)
    /\ eng.node_to_hex = [n \in {"a", "b", "c"} |->
                            IF n = "a" THEN "h1" ELSE IF n = "b" THEN "h2" ELSE "h3"]
    /\ eng.G_in.edges[<<"a", "b", "0">>]["time_min"] = R(4)
    /\ eng.G.edges[<<"a", "b", "0">>]["time_min"] = R(5)
    /\ eng.G_in.edges[<<"b", "c", "0">>]["time_min"] = R(2)
    /\ eng.G.edges[<<"b", "c", "0">>]["time_min"] = <<7, 2>>
    /\ IsNone(eng.G.edges[<<"a", "b", "1">>]["time_min"])
    /\ "time_min" \notin DOMAIN eng.G.edges[<<"c", "a", "0">>]

TimesDone == eng.which = "netfn" /\ eng.pc = "done"

\* C23: one search per distinct representative node.  A call of
\* compute_hex_travel_times runs one single-source search for each distinct
\* node of hex_to_node, never one per hex, and the hexes that share a node
\* get the same row, or no row.
C23_OneSearchPerNode ==
    /\ (eng.which = "netfn" /\ eng.pc = "searching") =>
          /\ eng.searches + Cardinality(eng.todo) = Cardinality(Range(eng.hex_to_node))
          /\ \A g, k \in eng.todo : g[1] = k[1] => g = k
    /\ TimesDone =>
          /\ eng.searches = Cardinality(Range(eng.hex_to_node))
          /\ eng.searches = searches_of(eng.hex_to_node)
          /\ \A h1, h2 \in DOMAIN eng.hex_to_node :
                eng.hex_to_node[h1] = eng.hex_to_node[h2] =>
                    /\ h1 \in DOMAIN eng.travel_times <=> h2 \in DOMAIN eng.travel_times
                    /\ h1 \in DOMAIN eng.travel_times =>
                          eng.travel_times[h1] = eng.travel_times[h2]
          /\ eng.travel_times
                = compute_hex_travel_times(eng.G, eng.hex_to_node, eng.max_time)

\* h1 and h2 share the node a and h3 has the node b: two searches for three
\* hexes, and the rows of h1 and h2 are one row that reaches h3
C23_Witness ==
    /\ TimesDone /\ eng.searches = 2
    /\ eng.hex_to_node["h1"] = "a" /\ eng.hex_to_node["h2"] = "a"
    /\ eng.hex_to_node["h3"] = "b"
    /\ DOMAIN eng.travel_times = {"h1", "h2", "h3"}
    /\ eng.travel_times["h1"] = eng.travel_times["h2"]
    /\ "h3" \in DOMAIN eng.travel_times["h1"]

\* the time of the cheapest of the parallel edges from u to v that have one
\* (an edge without the attribute time_min costs 1), None when there is none
Cheapest(G, u, v) ==
    LET times == {IF "time_min" \in DOMAIN G.edges[x] THEN G.edges[x]["time_min"] ELSE R(1) :
                    x \in {e \in DOMAIN G.edges : e[1] = u /\ e[2] = v}} \ {None_}
    IN  IF times = {} THEN None_ ELSE MinOf(times)

\* the length of the shortest path from s to t of at most k edges, None when
\* there is none
RECURSIVE DistWithin(_, _, _, _)
DistWithin(G, s, t, k) ==
    IF s \notin G.nodes \/ t \notin G.nodes THEN None_
    ELSE IF k = 0 THEN (IF s = t THEN R(0) ELSE None_)
    ELSE LET via == {RAdd(DistWithin(G, s, u, k - 1), Cheapest(G, u, t)) :
                        u \in {w \in G.nodes : /\ ~IsNone(DistWithin(G, s, w, k - 1))
                                               /\ ~IsNone(Cheapest(G, w, t))}}
             all == via \cup ({DistWithin(G, s, t, k - 1)} \ {None_})
         IN  IF all = {} THEN None_ ELSE MinOf(all)

Dist(G, s, t) == DistWithin(G, s, t, Cardinality(G.nodes) - 1)

\* C24: the contents of the travel-time table.  For every origin hex o that
\* has a row and every hex d, the row has an entry for d exactly when the
\* shortest-path distance, over the cheapest parallel edges, from the node of
\* o to the node of d is at most max_time, and the entry is that distance:
\* no entry exceeds max_time, and a destination that is not reached is absent.
C24_TableContents ==
    TimesDone =>
        \A o \in DOMAIN eng.travel_times :
            /\ DOMAIN eng.travel_times[o] \subseteq DOMAIN eng.hex_to_node
            /\ \A d \in DOMAIN eng.hex_to_node :
                  LET dist == Dist(eng.G, eng.hex_to_node[o], eng.hex_to_node[d])
                  IN  IF ~IsNone(dist) /\ RLe(dist, eng.max_time)
                      THEN /\ d \in DOMAIN eng.travel_times[o]
                           /\ eng.travel_times[o][d] = dist
                      ELSE d \notin DOMAIN eng.travel_times[o]

\* max_time 3, parallel edges a -> b of 4 and of 1 minute, b -> c of 16:
\* the row of h1 holds h2 at 1 minute and not h3, which is 17 minutes away
C24_Witness ==
    /\ TimesDone /\ eng.max_time = R(3)
    /\ eng.hex_to_node = [h \in {"h1", "h2", "h3"} |->
                            IF h = "h1" THEN "a" ELSE IF h = "h2" THEN "b" ELSE "c"]
    /\ eng.G.edges[<<"a", "b", "0">>]["time_min"] = R(4)
    /\ eng.G.edges[<<"a", "b", "1">>]["time_min"] = R(1)
    /\ "h1" \in DOMAIN eng.travel_times
    /\ eng.travel_times["h1"] = [h \in {"h1", "h2"} |-> IF h = "h1" THEN R(0) ELSE R(1)]
    /\ Dist(eng.G, "a", "c") = R(17)

\* the node n has no edge to or from another node
Disconnected(G, n) ==
    n \in G.nodes /\ \A x \in DOMAIN G.edges : (x[1] = n \/ x[2] = n) => x[1] = x[2]

\* the search from the node n meets, within max_time, a node with parallel
\* edges of which one has the time None, whose comparison raises
MeetsNone(G, n, max_time) ==
    \E u, v \in G.nodes :
        /\ ~IsNone(Dist(G, n, u)) /\ RLe(Dist(G, n, u), max_time)
        /\ Cardinality({x \in DOMAIN G.edges : x[1] = u /\ x[2] = v}) >= 2
        /\ \E x \in DOMAIN G.edges :
              /\ x[1] = u /\ x[2] = v
              /\ "time_min" \in DOMAIN G.edges[x] /\ IsNone(G.edges[x]["time_min"])

\* C25: a source that fails is skipped.  An origin hex whose node is missing
\* from the network or disconnected from every other node has no row in the
\* table; no error is raised and every other origin whose search succeeds has
\* its row.
C25_SoftFailure ==
    TimesDone =>
        \A o \in DOMAIN eng.hex_to_node :
            LET n == eng.hex_to_node[o]
            IN  IF n \notin eng.G.nodes \/ Disconnected(eng.G, n)
                THEN o \notin DOMAIN eng.travel_times
                ELSE ~MeetsNone(eng.G, n, eng.max_time) => o \in DOMAIN eng.travel_times

\* what holds: an origin has a row exactly when its node is in the network and
\* its search does not raise; the row of an origin whose node is disconnected
\* from every other node holds the hexes of that node, at 0 minutes
C25_Amended ==
    /\ (eng.which = "netfn" /\ eng.pc = "searching" /\ eng.todo = {}) =>
          ENABLED TimesReturn
    /\ TimesDone =>
        \A o \in DOMAIN eng.hex_to_node :
            LET n == eng.hex_to_node[o]
            IN  /\ o \in DOMAIN eng.travel_times
                      <=> (n \in eng.G.nodes /\ ~MeetsNone(eng.G, n, eng.max_time))
                /\ Disconnected(eng.G, n) =>
                      /\ o \in DOMAIN eng.travel_times
                      /\ eng.travel_times[o]
                            = [d \in {h \in DOMAIN eng.hex_to_node : eng.hex_to_node[h] = n}
                                 |-> R(0)]

\* h1 on the node a, h2 on the isolated node z and h3 on q, which is no node:
\* h1 has its row, h2 a row that holds h2 only, h3 none
C25_Witness ==
    /\ TimesDone
    /\ eng.hex_to_node = [h \in {"h1", "h2", "h3"} |->
                            IF h = "h1" THEN "a" ELSE IF h = "h2" THEN "z" ELSE "q"]
    /\ DOMAIN eng.travel_times = {"h1", "h2"}
    /\ eng.travel_times["h2"] = [d \in {"h2"} |-> R(0)]
    /\ eng.travel_times["h1"]["h1"] = R(0)

(***************************************************************************)
(* SpecStore: two runs on one shared store (runner.py:104-115 with         *)
(* artifacts.py:16-30).  Each run handles stages: it loads the artifact of *)
(* the stage and, when load returns None, computes it and saves it.  The    *)
(* steps of the two runs interleave: os.path.exists, open(p, "rb") with    *)
(* pickle.load, open(p, "wb"), and the writes of pickle.dump, whose stream  *)
(* reaches the file in one part or in several.  store maps the path of a   *)
(* file to its bytes, run[r] is the position of run r, hist the results of *)
(* the loads.                                                              *)
(***************************************************************************)
SRuns     == {1, 2}
SPaths    == {<<"travel_times", "k1">>, <<"pci", "k2">>}
MaxStages == 2    \* stages handled by one run

\* the object that a stage computes for a key: the same for every run
artifact_of(path) == [name |-> path[1], key |-> path[2]]

\* pickle.dump(obj, f): the byte stream of obj, in PickleParts parts
PickleParts == 2
pickle_bytes(obj) == [i \in 1..PickleParts |-> [of |-> obj, part |-> i]]

\* a byte range that no write filled
Hole == [of |-> Nil, part |-> 0]

\* f.write(chunk) at offset pos of a file opened with "wb"
write_at(content, pos, chunk) ==
    LET n   == pos + Len(chunk)
        len == IF Len(content) > n THEN Len(content) ELSE n
    IN  [i \in 1..len |->
            IF i > pos /\ i <= n THEN chunk[i - pos]
            ELSE IF i <= Len(content) THEN content[i] ELSE Hole]

\* pickle.load(f): the object of a whole stream; EOFError on an empty file,
\* UnpicklingError on a truncated or damaged one
unpickle(content) ==
    IF content = <<>> THEN Raise("EOFError")
    ELSE IF content[1].of # Nil /\ content = pickle_bytes(content[1].of)
    THEN Ok(content[1].of)
    ELSE Raise("UnpicklingError")

\* another run is between open(p, "wb") and the end of pickle.dump on the path
Saving(r, path) ==
    \E q \in SRuns \ {r} : run[q].pc = "writing" /\ run[q].path = path

LoadResult(r, path, res, racing) ==
    [run |-> r, path |-> path, res |-> res, racing |-> racing]

InitStore ==
    /\ store = <<>>
    /\ run = [r \in SRuns |-> [pc |-> "idle", path |-> <<>>, pos |-> 0, stages |-> 0]]
    /\ hist = <<>>
    /\ eng = Idle /\ heap = Idle /\ al = Idle

\* store.load(name, key) up to os.path.exists(p) (artifacts.py:20-21, 24):
\* None when there is no file, and the stage computes its artifact
LoadExists(r) ==
    /\ run[r].pc = "idle" /\ run[r].stages < MaxStages
    /\ \E path \in SPaths :
          IF path \in DOMAIN store
          THEN /\ run' = [run EXCEPT ![r].pc = "reading", ![r].path = path]
               /\ hist' = hist
          ELSE /\ run' = [run EXCEPT ![r].pc = "computed", ![r].path = path]
               /\ hist' = Append(hist, LoadResult(r, path, Ok(Nil), FALSE))
    /\ UNCHANGED <<store, eng, heap, al>>

\* open(p, "rb") and pickle.load(f) (artifacts.py:22-23): an exception leaves
\* run()
LoadRead(r) ==
    /\ run[r].pc = "reading"
    /\ LET res == unpickle(store[run[r].path])
       IN  /\ hist' = Append(hist,
                  LoadResult(r, run[r].path, res, Saving(r, run[r].path)))
           /\ run' = IF res.ok
                     THEN [run EXCEPT ![r].pc = "idle", ![r].stages = @ + 1]
                     ELSE [run EXCEPT ![r].pc = "raised"]
    /\ UNCHANGED <<store, eng, heap, al>>

\* store.save(name, key, obj) up to open(p, "wb") (artifacts.py:27-28): the
\* file exists and is empty
SaveOpen(r) ==
    /\ run[r].pc = "computed"
    /\ store' = [p \in DOMAIN store \cup {run[r].path} |->
                    IF p = run[r].path THEN <<>> ELSE store[p]]
    /\ run' = [run EXCEPT ![r].pc = "writing", ![r].pos = 0]
    /\ UNCHANGED <<hist, eng, heap, al>>

\* pickle.dump(obj, f) and the end of the with block (artifacts.py:29-30):
\* the next part of the stream, of any size, reaches the file
SaveWrite(r) ==
    /\ run[r].pc = "writing"
    /\ LET bytes == pickle_bytes(artifact_of(run[r].path))
           pos   == run[r].pos
       IN  \E k \in 1..(Len(bytes) - pos) :
              /\ store' = [store EXCEPT ![run[r].path] =
                              write_at(@, pos, SubSeq(bytes, pos + 1, pos + k))]
              /\ run' = IF pos + k = Len(bytes)
                        THEN [run EXCEPT ![r].pc = "idle", ![r].pos = 0,
                                         ![r].stages = @ + 1]
                        ELSE [run EXCEPT ![r].pos = pos + k]
    /\ UNCHANGED <<hist, eng, heap, al>>

NextStore ==
    \E r \in SRuns : LoadExists(r) \/ LoadRead(r) \/ SaveOpen(r) \/ SaveWrite(r)

SpecStore == InitStore /\ [][NextStore]_vars

(***************************************************************************)
(* Claims on the shared store (SpecStore)                                  *)
(***************************************************************************)
Whole(path) == store[path] = pickle_bytes(artifact_of(path))

\* C29: loads on a shared store.  With two runs interleaved, every load
\* returns None or the whole artifact saved under its key, and once the
\* saves of a key have ended its file holds one whole artifact.
C29_LoadSeesWholeArtifact ==
    /\ \A i \in DOMAIN hist :
          /\ hist[i].res.ok
          /\ hist[i].res.val \in {Nil, artifact_of(hist[i].path)}
    /\ \A path \in DOMAIN store :
          (\A r \in SRuns : ~(run[r].pc = "writing" /\ run[r].path = path))
              => Whole(path)

\* what holds: a load that reads while no other run is saving its key gets
\* the whole artifact, and the saves of a key leave one whole artifact
C29_QuietLoads ==
    /\ \A i \in DOMAIN hist :
          ~hist[i].racing =>
              /\ hist[i].res.ok
              /\ hist[i].res.val \in {Nil, artifact_of(hist[i].path)}
    /\ \A path \in DOMAIN store :
          (\A r \in SRuns : ~(run[r].pc = "writing" /\ run[r].path = path))
              => Whole(path)

====
